---- MODULE Spec2Model ----
(***************************************************************************)
(* A model of the graph kernels of pyamg/amg_core/graph.h: maximal        *)
(* independent sets, vertex colourings, breadth-first search, connected   *)
(* components, cluster incidence and balanced Bellman-Ford.  Arrays are   *)
(* functions on 0..size-1, as in the source; every kernel is translated   *)
(* loop by loop.                                                          *)
(***************************************************************************)
EXTENDS Integers, Sequences, FiniteSets, TLC

VARIABLES
    pc,            \* position of the running kernel
    NDEBUG,        \* TRUE when the build compiles assert() away
    num_rows,      \* number of vertices (num_rows / num_nodes)
    Ap, Aj, Ax,    \* the CSR graph
    num_clusters,  \* number of clusters
    cm,            \* cluster index of each node
    ICp, ICi, L,   \* cluster incidence arrays
    active, C, F,  \* the sentinel values of a maximal independent set call
    x,             \* state (or colour) of each vertex
    x_in,          \* x on entry to the call
    luby_seen,     \* this sweep's examinations next to a vertex in C
    y,             \* the weight of each vertex
    max_iters,     \* iteration limit of the parallel kernels (-1: none)
    N,             \* number of vertices promoted (or coloured) so far
    num_iters,     \* sweeps made by maximal_independent_set_parallel
    active_nodes,  \* loop flag of maximal_independent_set_parallel
    K,             \* current colour of a vertex colouring
    z,             \* the weights a colouring hands to the parallel kernel
    ret,           \* value returned by the kernel
    seed,          \* start vertex of breadth_first_search
    order, level,  \* output arrays of breadth_first_search
    level_begin, level_end, current_level,
    components,    \* output array of connected_components
    DFS,           \* the stack of connected_components, top first
    component,     \* current component id
    next_i,        \* the vertex loop variable i of connected_components
    d,             \* distance of each node to its centre
    c,             \* the cluster centres
    predecessor, pred_count, cs,
    iteration,     \* sweeps counted by bellman_ford_balanced
    change,        \* loop flag of bellman_ford_balanced
    tie_switches,  \* log of the equal-distance switches made so far
    next_a,        \* the cluster loop variable a of lloyd_cluster_exact
    old_distances, \* the copy of d that lloyd_cluster compares d with
    c_in,          \* the seeds c on entry to lloyd_cluster
    k_mis,         \* the separation k of maximal_independent_set_k_parallel
    i_keys, i_vals,\* the (key, value) pairs it propagates
    k_active       \* its vector active

graphVars == <<num_rows, Ap, Aj, Ax>>
incVars == <<num_clusters, cm, ICp, ICi, L>>
misVars == <<active, C, F, x, x_in, luby_seen, y, max_iters, N, num_iters, active_nodes>>
colVars == <<K, z, ret>>
bfsVars == <<seed, order, level, level_begin, level_end, current_level>>
ccVars == <<components, DFS, component, next_i>>
bfbVars == <<d, c, predecessor, pred_count, cs, iteration, change,
            tie_switches>>

lloydVars == <<next_a, old_distances, c_in>>
misKVars == <<k_mis, i_keys, i_vals, k_active>>

vars == <<pc, NDEBUG, graphVars, incVars, misVars, colVars, bfsVars, ccVars,
          bfbVars, lloydVars, misKVars>>

\* Largest number of vertices of a graph of the model.
MaxN == 3
\* Largest edge weight of a graph of the model.
MaxW == 2
\* Largest vertex weight y[i] of the model.
MaxY == 1
\* Largest finite iteration limit max_iters of the model.
MaxIters == 1
\* Largest number of passes of the loop over iter of
\* maximal_independent_set_k_parallel the model follows; the loop itself has
\* no bound when max_iters is -1.
MisKSweepCap == 5

----------------------------------------------------------------------------
(* Arrays and CSR graphs                                                   *)

\* An array of the given size holding v everywhere.
Fill(size, v) == [i \in 0..(size - 1) |-> v]

\* Marks an array cell that was allocated and never written.
Undef == -1

\* The values the variables of a kernel hold while another kernel runs.
IdleGraph == num_rows = 0 /\ Ap = <<>> /\ Aj = <<>> /\ Ax = <<>>
IdleInc == num_clusters = 0 /\ cm = <<>> /\ ICp = <<>> /\ ICi = <<>> /\ L = <<>>
IdleMis ==
    /\ active = 0 /\ C = 0 /\ F = 0 /\ x = <<>> /\ x_in = <<>> /\ luby_seen = {} /\ y = <<>>
    /\ max_iters = 0 /\ N = 0 /\ num_iters = 0 /\ active_nodes = FALSE
IdleCol == K = 0 /\ z = <<>> /\ ret = 0
IdleBfs ==
    /\ seed = 0 /\ order = <<>> /\ level = <<>>
    /\ level_begin = 0 /\ level_end = 0 /\ current_level = 0
IdleCc == components = <<>> /\ DFS = <<>> /\ component = 0 /\ next_i = 0
IdleBfb ==
    /\ d = <<>> /\ c = <<>> /\ predecessor = <<>> /\ pred_count = <<>>
    /\ cs = <<>> /\ iteration = 0 /\ change = FALSE /\ tie_switches = {}
IdleLloyd == next_a = 0 /\ old_distances = <<>> /\ c_in = <<>>
IdleMisK == k_mis = 0 /\ i_keys = <<>> /\ i_vals = <<>> /\ k_active = <<>>

RECURSIVE SortAsc(_)
SortAsc(S) ==
    IF S = {} THEN <<>>
    ELSE LET m == CHOOSE v \in S : \A w \in S : v <= w
         IN  <<m>> \o SortAsc(S \ {m})

Reverse(s) == [p \in 1..Len(s) |-> s[Len(s) + 1 - p]]

\* The unordered pairs of distinct vertices of a graph on n vertices.
Pairs(n) == {e \in SUBSET (0..(n - 1)) : Cardinality(e) = 2}

\* A graph of the model: n vertices, undirected edge set E, the diagonal
\* stored when loops is TRUE, column indices of a row ascending or
\* descending, and a set omit of arcs <<i, j>> left out of row i (empty for
\* a symmetric graph).
\* Row i of the adjacency matrix of g.
RowOf(g, i) ==
    LET S == {j \in 0..(g.n - 1) :
                 \/ j # i /\ {i, j} \in g.E /\ <<i, j>> \notin g.omit
                 \/ j = i /\ g.loops}
    IN  IF g.ord = "asc" THEN SortAsc(S) ELSE Reverse(SortAsc(S))

RECURSIVE RowStart(_, _)
RowStart(g, i) ==
    IF i = 0 THEN 0 ELSE RowStart(g, i - 1) + Len(RowOf(g, i - 1))

RECURSIVE RowsUpTo(_, _)
RowsUpTo(g, i) ==
    IF i = 0 THEN <<>> ELSE RowsUpTo(g, i - 1) \o RowOf(g, i - 1)

\* The CSR arrays (Ap, Aj, Ax) of g whose edge {i,j} has weight W[{i,j}];
\* a stored diagonal entry has weight 1.
CSR(g, W) ==
    LET cols == RowsUpTo(g, g.n)
        rowof(jj) == CHOOSE i \in 0..(g.n - 1) :
                        RowStart(g, i) <= jj /\ jj < RowStart(g, i + 1)
    IN  [Ap |-> [i \in 0..g.n |-> RowStart(g, i)],
         Aj |-> [jj \in 0..(Len(cols) - 1) |-> cols[jj + 1]],
         Ax |-> [jj \in 0..(Len(cols) - 1) |->
                    IF cols[jj + 1] = rowof(jj) THEN 1
                    ELSE W[{rowof(jj), cols[jj + 1]}]]]

\* The symmetric graphs on n vertices.
SymGraphs(n) ==
    [n : {n}, E : SUBSET Pairs(n), loops : BOOLEAN, ord : {"asc", "desc"},
     omit : {{}}]

\* The symmetric graphs and those that store one edge in one direction only.
Graphs(n) ==
    {g \in [n : {n}, E : SUBSET Pairs(n), loops : BOOLEAN,
            ord : {"asc", "desc"},
            omit : {{}} \cup {{a} : a \in (0..(n - 1)) \X (0..(n - 1))}] :
        \A a \in g.omit : {a[1], a[2]} \in g.E}

\* The unit weights of the edges of g.
UnitW(g) == [e \in g.E |-> 1]

\* Stored neighbours of i, as a set.
Adj(i) == {Aj[jj] : jj \in Ap[i]..(Ap[i + 1] - 1)}

Symmetric == \A i, j \in 0..(num_rows - 1) : j \in Adj(i) => i \in Adj(j)

\* Vertices joined to i by a path of stored edges (i itself included).
RECURSIVE ReachFrom(_)
ReachFrom(S) ==
    LET T == S \cup UNION {Adj(i) : i \in S}
    IN  IF T = S THEN S ELSE ReachFrom(T)

Connected == ReachFrom({0}) = 0..(num_rows - 1)

----------------------------------------------------------------------------
(* cluster_node_incidence                                                  *)

\* The comparator handed to std::sort: TRUE when i is ordered before j.
incidence_before_asc(cm_, i, j) ==
    (cm_[i] < cm_[j]) \/ (cm_[i] = cm_[j] /\ i < j)
incidence_before(cm_, i, j) ==
    (cm_[i] > cm_[j]) \/ (cm_[i] = cm_[j] /\ i > j)

\* std::sort of the node set S under incidence_before, a strict total order.
RECURSIVE incidence_sort(_, _)
incidence_sort(cm_, S) ==
    IF S = {} THEN <<>>
    ELSE LET f == CHOOSE i \in S : \A j \in S \ {i} : incidence_before(cm_, i, j)
         IN  <<f>> \o incidence_sort(cm_, S \ {f})

\* ICi after the fill and the sort.
incidence_ICi(n, cm_) ==
    LET s == incidence_sort(cm_, 0..(n - 1))
    IN  [i \in 0..(n - 1) |-> s[i + 1]]

\* The loop that builds ICp; st records the first assertion that fails
\* (when assertions are compiled in) or the first out-of-range write.
RECURSIVE incidence_ICp_loop(_, _, _, _, _, _, _)
incidence_ICp_loop(n, k, cm_, ICi_, nd, i, acc) ==
    IF acc.st # "ok" \/ i = n THEN acc
    ELSE IF cm_[ICi_[i]] # acc.a
         THEN LET a1 == acc.a + 1
              IN  IF ~nd /\ ~(a1 < k)
                  THEN [acc EXCEPT !.a = a1, !.st = "assert"]
                  ELSE IF a1 \notin DOMAIN acc.ICp
                  THEN [acc EXCEPT !.a = a1, !.st = "ub"]
                  ELSE incidence_ICp_loop(n, k, cm_, ICi_, nd, i + 1,
                          [acc EXCEPT !.a = a1, !.ICp[a1] = i])
         ELSE incidence_ICp_loop(n, k, cm_, ICi_, nd, i + 1, acc)

incidence_ICp(n, k, cm_, ICi_, ICp_size, nd) ==
    LET r  == incidence_ICp_loop(n, k, cm_, ICi_, nd, 0,
                 [ICp |-> [Fill(ICp_size, Undef) EXCEPT ![0] = 0],
                  a |-> 0, st |-> "ok"])
        a1 == r.a + 1
    IN  IF r.st # "ok" THEN r
        ELSE IF ~nd /\ a1 # k THEN [r EXCEPT !.a = a1, !.st = "assert"]
        ELSE IF a1 \notin DOMAIN r.ICp THEN [r EXCEPT !.a = a1, !.st = "ub"]
        ELSE [r EXCEPT !.a = a1, !.ICp[a1] = n]

\* The loops that build L: cluster a, local index m, running position i.
RECURSIVE incidence_L_loop(_, _, _, _, _, _, _)
incidence_L_loop(n, k, ICp_, nd, a, m, acc) ==
    IF acc.st # "ok" THEN acc
    ELSE IF a = k
         THEN IF ~nd /\ acc.i # n THEN [acc EXCEPT !.st = "assert"] ELSE acc
    ELSE IF (a + 1) \notin DOMAIN ICp_ \/ ICp_[a + 1] = Undef \/ ICp_[a] = Undef
         THEN [acc EXCEPT !.st = "ub"]
    ELSE IF m < ICp_[a + 1] - ICp_[a]
         THEN IF acc.i \notin DOMAIN acc.L
              THEN [acc EXCEPT !.st = "ub"]
              ELSE incidence_L_loop(n, k, ICp_, nd, a, m + 1,
                      [acc EXCEPT !.L[acc.i] = m, !.i = acc.i + 1])
    ELSE incidence_L_loop(n, k, ICp_, nd, a + 1, 0, acc)

incidence_L(n, k, ICp_, nd) ==
    incidence_L_loop(n, k, ICp_, nd, 0, 0,
                     [L |-> Fill(n, Undef), i |-> 0, st |-> "ok"])

\* The assertions that global -> local has a correct inverse.
RECURSIVE incidence_check_g2l(_, _, _, _, _, _, _, _)
incidence_check_g2l(n, k, cm_, ICp_, ICi_, L_, nd, i) ==
    IF i = n THEN "ok"
    ELSE LET a == cm_[i]
             m == L_[a]
         IN  IF a \notin DOMAIN L_ \/ m = Undef THEN "ub"
             ELSE IF ~nd /\ ~(a >= 0 /\ a < k) THEN "assert"
             ELSE IF ~nd /\ ~(m >= 0 /\ m < ICp_[a + 1] - ICp_[a]) THEN "assert"
             ELSE IF ~nd /\ i # ICi_[ICp_[a] + m] THEN "assert"
             ELSE incidence_check_g2l(n, k, cm_, ICp_, ICi_, L_, nd, i + 1)

\* The assertions that local -> global has a correct inverse.
RECURSIVE incidence_check_l2g(_, _, _, _, _, _, _, _, _)
incidence_check_l2g(n, k, cm_, ICp_, ICi_, L_, nd, a, m) ==
    IF a = k THEN "ok"
    ELSE IF m < ICp_[a]
         THEN IF (ICp_[a] + m) \notin DOMAIN ICi_ THEN "ub"
              ELSE LET j == ICi_[ICp_[a] + m]
                   IN  IF ~nd /\ ~(j >= 0 /\ j < n) THEN "assert"
                       ELSE IF ~nd /\ a # cm_[j] THEN "assert"
                       ELSE IF ~nd /\ L_[j] = Undef THEN "ub"
                       ELSE IF ~nd /\ m # L_[j] THEN "assert"
                       ELSE incidence_check_l2g(n, k, cm_, ICp_, ICi_, L_, nd, a, m + 1)
    ELSE incidence_check_l2g(n, k, cm_, ICp_, ICi_, L_, nd, a + 1, 0)

restInc == <<lloydVars, misKVars, misVars, colVars, bfsVars, ccVars, bfbVars>>

\* Where the routine goes after a step that ended in state st.
IncNext(st, next) ==
    IF st = "ok" THEN next
    ELSE IF st = "assert" THEN "assert_failed"
    ELSE IF st = "throw" THEN "exception_thrown"
    ELSE "undefined_behaviour"

IncTerminal == {"inc_done", "assert_failed", "undefined_behaviour"}

InitIncidence ==
    /\ pc = "inc_sort"
    /\ NDEBUG \in BOOLEAN
    /\ num_rows \in 1..MaxN
    /\ num_clusters \in 1..num_rows
    /\ cm \in [0..(num_rows - 1) -> 0..(num_clusters - 1)]
    /\ ICp = Fill(num_clusters + 1, Undef)
    /\ ICi = Fill(num_rows, Undef)
    /\ L = Fill(num_rows, Undef)
    /\ Ap = <<>> /\ Aj = <<>> /\ Ax = <<>>
    /\ IdleMis /\ IdleCol /\ IdleBfs /\ IdleCc /\ IdleBfb
    /\ IdleLloyd /\ IdleMisK

IncSort ==
    /\ pc = "inc_sort"
    /\ ICi' = incidence_ICi(num_rows, cm)
    /\ pc' = "inc_ICp"
    /\ UNCHANGED <<NDEBUG, graphVars, restInc, num_clusters, cm, ICp, L>>

IncBuildICp ==
    /\ pc = "inc_ICp"
    /\ LET r == incidence_ICp(num_rows, num_clusters, cm, ICi,
                              Cardinality(DOMAIN ICp), NDEBUG)
       IN  /\ ICp' = r.ICp
           /\ pc' = IncNext(r.st, "inc_L")
    /\ UNCHANGED <<NDEBUG, graphVars, restInc, num_clusters, cm, ICi, L>>

IncBuildL ==
    /\ pc = "inc_L"
    /\ LET r == incidence_L(num_rows, num_clusters, ICp, NDEBUG)
       IN  /\ L' = r.L
           /\ pc' = IncNext(r.st, "inc_check_g2l")
    /\ UNCHANGED <<NDEBUG, graphVars, restInc, num_clusters, cm, ICp, ICi>>

IncCheckG2L ==
    /\ pc = "inc_check_g2l"
    /\ pc' = IncNext(incidence_check_g2l(num_rows, num_clusters, cm, ICp, ICi,
                                         L, NDEBUG, 0), "inc_check_l2g")
    /\ UNCHANGED <<NDEBUG, graphVars, restInc, incVars>>

IncCheckL2G ==
    /\ pc = "inc_check_l2g"
    /\ pc' = IncNext(incidence_check_l2g(num_rows, num_clusters, cm, ICp, ICi,
                                         L, NDEBUG, 0, 0), "inc_done")
    /\ UNCHANGED <<NDEBUG, graphVars, restInc, incVars>>

NextIncidence ==
    \/ IncSort
    \/ IncBuildICp
    \/ IncBuildL
    \/ IncCheckG2L
    \/ IncCheckL2G

SpecIncidence == InitIncidence /\ [][NextIncidence]_vars

\* Every cluster 0..k-1 has a node and every label is in range.
EveryClusterNonEmpty ==
    \A a \in 0..(num_clusters - 1) : \E i \in 0..(num_rows - 1) : cm[i] = a

\* C1: after cluster_node_incidence on a labelling with no empty cluster,
\* the routine has returned without a failed assertion and
\* ICi[ICp[cm[i]] + L[i]] = i for every node i.
C1_GlobalLocalRoundTrip ==
    (pc \in IncTerminal /\ EveryClusterNonEmpty) =>
        /\ pc = "inc_done"
        /\ \A i \in 0..(num_rows - 1) :
              /\ L[i] # Undef
              /\ (ICp[cm[i]] + L[i]) \in DOMAIN ICi
              /\ ICi[ICp[cm[i]] + L[i]] = i

\* C2: after cluster_node_incidence on a labelling with no empty cluster,
\* ICp[0] = 0, ICp[k] = n, and every local index (a, m) names a node j
\* with cm[j] = a and L[j] = m.
C2_LocalGlobalRoundTrip ==
    (pc \in IncTerminal /\ EveryClusterNonEmpty) =>
        /\ pc = "inc_done"
        /\ ICp[0] = 0
        /\ ICp[num_clusters] = num_rows
        /\ \A a \in 0..(num_clusters - 1) :
              \A m \in 0..(ICp[a + 1] - ICp[a] - 1) :
                 /\ cm[ICi[ICp[a] + m]] = a
                 /\ L[ICi[ICp[a] + m]] = m

----------------------------------------------------------------------------
(* maximal_independent_set_serial and maximal_independent_set_parallel     *)

\* The inner loop that sets every neighbour of i holding a_ to f_.
RECURSIVE mis_mark_neighbours_skip_first(_, _, _, _, _)
mis_mark_neighbours_skip_first(a_, f_, x_, i, jj) ==
    IF jj + 1 >= Ap[i + 1] THEN x_
    ELSE mis_mark_neighbours_skip_first(a_, f_,
            IF x_[Aj[jj + 1]] = a_ THEN [x_ EXCEPT ![Aj[jj + 1]] = f_] ELSE x_,
            i, jj + 1)
RECURSIVE mis_mark_neighbours_always(_, _, _, _, _)
mis_mark_neighbours_always(a_, f_, x_, i, jj) ==
    IF jj >= Ap[i + 1] THEN x_
    ELSE mis_mark_neighbours_always(a_, f_, [x_ EXCEPT ![Aj[jj]] = f_],
                                    i, jj + 1)
RECURSIVE mis_mark_neighbours(_, _, _, _, _)
mis_mark_neighbours(a_, f_, x_, i, jj) ==
    IF jj >= Ap[i + 1] THEN x_
    ELSE mis_mark_neighbours(a_, f_,
            IF x_[Aj[jj]] = a_ THEN [x_ EXCEPT ![Aj[jj]] = f_] ELSE x_,
            i, jj + 1)

\* The vertex loop of maximal_independent_set_serial from vertex i on;
\* acc holds x and the count N.
RECURSIVE mis_serial_loop(_, _, _, _, _)
mis_serial_loop(a_, c_, f_, i, acc) ==
    IF i >= num_rows THEN acc
    ELSE IF acc.x[i] # a_ THEN mis_serial_loop(a_, c_, f_, i + 1, acc)
    ELSE mis_serial_loop(a_, c_, f_, i + 1,
            [x |-> mis_mark_neighbours(a_, f_, [acc.x EXCEPT ![i] = c_], i, Ap[i]),
             N |-> acc.N + 1])

maximal_independent_set_serial(a_, c_, f_, x_) ==
    mis_serial_loop(a_, c_, f_, 0, [x |-> x_, N |-> 0])

\* TRUE when the active neighbour j stops the scan of vertex i.
mis_neighbour_wins_lower(y_, i, j) ==
    y_[j] > y_[i] \/ (y_[j] = y_[i] /\ j < i)
mis_neighbour_wins(y_, i, j) ==
    y_[j] > y_[i] \/ (y_[j] = y_[i] /\ j > i)

\* The scan of row i: the position jj at which the loop stops (Ap[i+1]
\* when it runs to the end) and whether it stopped on a neighbour in C.
RECURSIVE mis_scan_demote_any(_, _, _, _, _, _)
mis_scan_demote_any(a_, c_, x_, y_, i, jj) ==
    IF jj >= Ap[i + 1] THEN [jj |-> jj, demote |-> FALSE]
    ELSE LET j == Aj[jj]
         IN  IF x_[j] # a_ THEN [jj |-> jj, demote |-> TRUE]
             ELSE IF x_[j] = a_ /\ mis_neighbour_wins(y_, i, j)
                  THEN [jj |-> jj, demote |-> FALSE]
             ELSE mis_scan_demote_any(a_, c_, x_, y_, i, jj + 1)
\* The scan of row i that looks for a neighbour in C in the whole row first.
mis_scan_whole_row(a_, c_, x_, y_, i, jj) ==
    IF \E q \in jj..(Ap[i + 1] - 1) : x_[Aj[q]] = c_
    THEN [jj |-> CHOOSE q \in jj..(Ap[i + 1] - 1) : x_[Aj[q]] = c_,
          demote |-> TRUE]
    ELSE LET W == {q \in jj..(Ap[i + 1] - 1) :
                     x_[Aj[q]] = a_ /\ mis_neighbour_wins(y_, i, Aj[q])}
         IN  [jj |-> IF W = {} THEN Ap[i + 1]
                     ELSE CHOOSE q \in W : \A q2 \in W : q <= q2,
              demote |-> FALSE]
RECURSIVE mis_scan(_, _, _, _, _, _)
mis_scan(a_, c_, x_, y_, i, jj) ==
    IF jj >= Ap[i + 1] THEN [jj |-> jj, demote |-> FALSE]
    ELSE LET j == Aj[jj]
         IN  IF x_[j] = c_ THEN [jj |-> jj, demote |-> TRUE]
             ELSE IF x_[j] = a_ /\ mis_neighbour_wins(y_, i, j)
                  THEN [jj |-> jj, demote |-> FALSE]
             ELSE mis_scan(a_, c_, x_, y_, i, jj + 1)

\* The body of the vertex loop of maximal_independent_set_parallel for
\* vertex i; acc holds x, N and active_nodes.
mis_parallel_vertex(a_, c_, f_, y_, i, acc) ==
    IF acc.x[i] # a_ THEN acc
    ELSE LET r  == mis_scan(a_, c_, acc.x, y_, i, Ap[i])
             x1 == IF r.demote THEN [acc.x EXCEPT ![i] = f_] ELSE acc.x
         IN  IF r.jj = Ap[i + 1]
             THEN [x |-> [mis_mark_neighbours(a_, f_, x1, i, Ap[i])
                             EXCEPT ![i] = c_],
                   N |-> acc.N + 1,
                   active_nodes |-> acc.active_nodes]
             ELSE [x |-> x1, N |-> acc.N, active_nodes |-> TRUE]

\* One sweep of maximal_independent_set_parallel over the vertices from i
\* on.
RECURSIVE mis_parallel_sweep(_, _, _, _, _, _)
mis_parallel_sweep(a_, c_, f_, y_, i, acc) ==
    IF i >= num_rows THEN acc
    ELSE mis_parallel_sweep(a_, c_, f_, y_, i + 1,
                            mis_parallel_vertex(a_, c_, f_, y_, i, acc))

\* The condition of the while loop.
mis_parallel_continue_once(an, mi, ni) == an /\ (mi = -1 \/ ni < mi) /\ ni < 1
mis_parallel_continue(an, mi, ni) == an /\ (mi = -1 \/ ni < mi)

\* The whole call, as the colouring routines use it.
RECURSIVE mis_parallel_while(_, _, _, _, _, _)
mis_parallel_while(a_, c_, f_, y_, mi, st) ==
    IF ~mis_parallel_continue(st.active_nodes, mi, st.num_iters) THEN st
    ELSE LET r == mis_parallel_sweep(a_, c_, f_, y_, 0,
                     [x |-> st.x, N |-> st.N, active_nodes |-> FALSE])
         IN  mis_parallel_while(a_, c_, f_, y_, mi,
                [x |-> r.x, N |-> r.N, active_nodes |-> r.active_nodes,
                 num_iters |-> st.num_iters + 1])

maximal_independent_set_parallel(a_, c_, f_, x_, y_, mi) ==
    mis_parallel_while(a_, c_, f_, y_, mi,
        [x |-> x_, N |-> 0, active_nodes |-> TRUE, num_iters |-> 0])

\* Sentinel triples <<active, C, F>>: those of scenario S1 and those the
\* first round of a colouring passes.
Sentinels == {<<0, 1, 2>>, <<-1, 0, -2>>}

InitGraph(G, W) ==
    /\ num_rows = G.n
    /\ Ap = CSR(G, W).Ap
    /\ Aj = CSR(G, W).Aj
    /\ Ax = CSR(G, W).Ax

restMis == <<lloydVars, misKVars, incVars, colVars, bfsVars, ccVars, bfbVars>>

InitMis ==
    /\ pc \in {"mis_serial", "mis_parallel"}
    /\ NDEBUG = FALSE
    /\ \E n \in 1..MaxN : \E G \in Graphs(n) : InitGraph(G, UnitW(G))
    /\ IdleInc /\ IdleCol /\ IdleBfs /\ IdleCc /\ IdleBfb
    /\ IdleLloyd /\ IdleMisK
    /\ \E s \in Sentinels : active = s[1] /\ C = s[2] /\ F = s[3]
    /\ x \in [0..(num_rows - 1) -> {active, C, F}]
    /\ x_in = x /\ luby_seen = {}
    /\ IF pc = "mis_parallel"
       THEN /\ y \in [0..(num_rows - 1) -> 0..MaxY]
            /\ max_iters \in (-1)..MaxIters
       ELSE /\ y = Fill(num_rows, 0)
            /\ max_iters = -1
    /\ N = 0
    /\ num_iters = 0
    /\ active_nodes = TRUE

MisSerial ==
    /\ pc = "mis_serial"
    /\ LET r == maximal_independent_set_serial(active, C, F, x)
       IN  x' = r.x /\ N' = r.N
    /\ pc' = "mis_done"
    /\ UNCHANGED <<NDEBUG, graphVars, restMis, active, C, F, x_in, luby_seen, y,
                   max_iters, num_iters, active_nodes>>

MisParallelSweep ==
    /\ pc = "mis_parallel"
    /\ mis_parallel_continue(active_nodes, max_iters, num_iters)
    /\ LET r == mis_parallel_sweep(active, C, F, y, 0,
                   [x |-> x, N |-> N, active_nodes |-> FALSE])
       IN  x' = r.x /\ N' = r.N /\ active_nodes' = r.active_nodes
    /\ num_iters' = num_iters + 1
    /\ UNCHANGED <<pc, NDEBUG, graphVars, restMis, active, C, F, x_in, luby_seen, y,
                   max_iters>>

MisParallelReturn ==
    /\ pc = "mis_parallel"
    /\ ~mis_parallel_continue(active_nodes, max_iters, num_iters)
    /\ pc' = "mis_done"
    /\ UNCHANGED <<NDEBUG, graphVars, restMis, misVars>>

NextMis ==
    \/ MisSerial
    \/ MisParallelSweep
    \/ MisParallelReturn

SpecMis == InitMis /\ [][NextMis]_vars

Promoted(i) == x_in[i] = active /\ x[i] = C

\* C4: on a symmetric graph, no two distinct vertices promoted by the call
\* are adjacent.
C4_MisIndependence ==
    (pc = "mis_done" /\ Symmetric) =>
        \A u, v \in 0..(num_rows - 1) :
            (u # v /\ Promoted(u) /\ Promoted(v)) => v \notin Adj(u)

C4_Witness ==
    /\ pc = "mis_done" /\ Symmetric
    /\ \E u, v \in 0..(num_rows - 1) : u # v /\ Promoted(u) /\ Promoted(v)
    /\ \E u, v \in 0..(num_rows - 1) : u # v /\ Promoted(u) /\ v \in Adj(u)

\* The call that returned was maximal_independent_set_serial, or
\* maximal_independent_set_parallel with max_iters = -1.
MisUnbounded == pc = "mis_done" /\ max_iters = -1

\* C5: on a symmetric graph with no vertex in C on entry, after the serial
\* kernel or the parallel kernel without iteration limit, every vertex that
\* was active on entry and was not promoted has a promoted neighbour.
C5_MisMaximality ==
    (MisUnbounded /\ Symmetric /\ \A i \in 0..(num_rows - 1) : x_in[i] # C) =>
        \A i \in 0..(num_rows - 1) :
            (x_in[i] = active /\ ~Promoted(i)) => \E j \in Adj(i) : Promoted(j)

C5_Witness ==
    /\ MisUnbounded /\ Symmetric /\ \A i \in 0..(num_rows - 1) : x_in[i] # C
    /\ num_iters >= 2
    /\ \E i \in 0..(num_rows - 1) : x_in[i] = active /\ x[i] = F
    /\ \E i \in 0..(num_rows - 1) : x_in[i] = F

\* What maximal_independent_set_parallel leaves on return: no vertex holds
\* the active value, every vertex active on entry holds C or F, and N counts
\* the promoted vertices.
MisParallelPost ==
    /\ \A i \in 0..(num_rows - 1) : x[i] # active
    /\ \A i \in 0..(num_rows - 1) : x_in[i] = active => x[i] \in {C, F}
    /\ N = Cardinality({i \in 0..(num_rows - 1) : Promoted(i)})

\* C6: maximal_independent_set_parallel without iteration limit returns
\* after at most one sweep per vertex active on entry and one more, and on
\* return no vertex is active and N is the number of promotions.
C6_MisParallelTerminates ==
    (pc \in {"mis_parallel", "mis_done"} /\ max_iters = -1) =>
        /\ num_iters <= Cardinality({i \in 0..(num_rows - 1) :
                                        x_in[i] = active}) + 1
        /\ pc = "mis_done" => MisParallelPost

C6_Witness ==
    /\ pc = "mis_done" /\ max_iters = -1 /\ num_iters >= 3
    /\ ~Symmetric
    /\ N >= 1
    /\ \E i \in 0..(num_rows - 1) : x_in[i] = active /\ x[i] = F

----------------------------------------------------------------------------
(* vertex_coloring_mis, vertex_coloring_first_fit,                         *)
(* vertex_coloring_jones_plassmann and vertex_coloring_LDF                 *)

\* One pass of the loop of vertex_coloring_mis: the serial kernel with the
\* sentinels of colour k_.
coloring_mis_round(x_, k_) ==
    maximal_independent_set_serial(-1 - k_, k_, -2 - k_, x_)

\* The colours of the neighbours of i that first-fit marks in its mask, and
\* whether one of them lies outside the mask of size k_.
RECURSIVE first_fit_mask_with_diagonal(_, _, _, _, _)
first_fit_mask_with_diagonal(x_, k_, i, jj, acc) ==
    IF jj >= Ap[i + 1] THEN acc
    ELSE LET j == Aj[jj]
         IN  IF x_[j] < 0
             THEN first_fit_mask_with_diagonal(x_, k_, i, jj + 1, acc)
             ELSE IF x_[j] >= k_
             THEN [acc EXCEPT !.st = "ub"]
             ELSE first_fit_mask_with_diagonal(x_, k_, i, jj + 1,
                     [acc EXCEPT !.mask = acc.mask \cup {x_[j]}])
RECURSIVE first_fit_mask(_, _, _, _, _)
first_fit_mask(x_, k_, i, jj, acc) ==
    IF jj >= Ap[i + 1] THEN acc
    ELSE LET j == Aj[jj]
         IN  IF i = j \/ x_[j] < 0
             THEN first_fit_mask(x_, k_, i, jj + 1, acc)
             ELSE IF x_[j] >= k_
             THEN [acc EXCEPT !.st = "ub"]
             ELSE first_fit_mask(x_, k_, i, jj + 1,
                     [acc EXCEPT !.mask = acc.mask \cup {x_[j]}])

\* std::find(mask.begin(), mask.end(), false) - mask.begin().
first_fit_find_used(mask, k_) ==
    IF \E v \in 0..(k_ - 1) : v \in mask
    THEN CHOOSE v \in 0..(k_ - 1) :
            v \in mask /\ \A w \in 0..(v - 1) : w \notin mask
    ELSE k_
first_fit_find(mask, k_) ==
    IF \E v \in 0..(k_ - 1) : v \notin mask
    THEN CHOOSE v \in 0..(k_ - 1) :
            v \notin mask /\ \A w \in 0..(v - 1) : w \in mask
    ELSE k_

RECURSIVE first_fit_loop(_, _, _)
first_fit_loop(k_, i, acc) ==
    IF acc.st # "ok" \/ i >= num_rows THEN acc
    ELSE IF acc.x[i] # k_ THEN first_fit_loop(k_, i + 1, acc)
    ELSE LET m == first_fit_mask(acc.x, k_, i, Ap[i], [mask |-> {}, st |-> "ok"])
         IN  IF m.st # "ok" THEN [acc EXCEPT !.st = m.st]
             ELSE first_fit_loop(k_, i + 1,
                     [acc EXCEPT !.x[i] = first_fit_find(m.mask, k_)])

vertex_coloring_first_fit(x_, k_) == first_fit_loop(k_, 0, [x |-> x_, st |-> "ok"])

\* The pass that turns the transient value -2 back into -1.
coloring_revert(x_) == [i \in DOMAIN x_ |-> IF x_[i] = -2 THEN -1 ELSE x_[i]]

\* One pass of the loop of the two parallel colourings, after the weights
\* are set: one sweep of the parallel kernel, the revert, first-fit.
coloring_parallel_round(x_, w_, k_) ==
    LET r  == maximal_independent_set_parallel(-1, k_, -2, x_, w_, 1)
        ff == vertex_coloring_first_fit(coloring_revert(r.x), k_)
    IN  [x |-> ff.x, N |-> r.N, st |-> ff.st]

\* z[i] += Ap[i+1] - Ap[i].
jones_plassmann_weights(z_) == [i \in DOMAIN z_ |-> z_[i] + (Ap[i + 1] - Ap[i])]

\* The weights of vertex_coloring_LDF: y[i] plus the number of uncoloured
\* neighbours other than i, for the uncoloured i.
LDF_weights(x_, y_, w_) ==
    [i \in DOMAIN w_ |->
        IF x_[i] # -1 THEN w_[i]
        ELSE y_[i] + Cardinality({jj \in Ap[i]..(Ap[i + 1] - 1) :
                                     x_[Aj[jj]] = -1 /\ i # Aj[jj]})]

\* *std::max_element(x, x + num_rows).
max_element(x_) == CHOOSE v \in {x_[i] : i \in DOMAIN x_} :
                      \A i \in DOMAIN x_ : x_[i] <= v

restCol == <<lloydVars, misKVars, incVars, bfsVars, ccVars, bfbVars, active, C, F, x_in, luby_seen,
             max_iters, num_iters, active_nodes>>

InitColoring ==
    /\ pc \in {"coloring_mis", "coloring_jp", "coloring_LDF"}
    /\ NDEBUG = FALSE
    /\ \E n \in 1..MaxN : \E G \in Graphs(n) : InitGraph(G, UnitW(G))
    /\ IdleInc /\ IdleBfs /\ IdleCc /\ IdleBfb
    /\ IdleLloyd /\ IdleMisK
    /\ active = 0 /\ C = 0 /\ F = 0 /\ x_in = <<>> /\ luby_seen = {}
    /\ max_iters = 0 /\ num_iters = 0 /\ active_nodes = FALSE
    /\ x = Fill(num_rows, 0)
    /\ IF pc = "coloring_mis"
       THEN y = Fill(num_rows, 0)
       ELSE y \in [0..(num_rows - 1) -> 0..MaxY]
    /\ z = Fill(num_rows, 0)
    /\ N = 0 /\ K = 0 /\ ret = -1

\* vertex_coloring_mis up to its loop.
ColoringMisEnter ==
    /\ pc = "coloring_mis"
    /\ x' = Fill(num_rows, -1)
    /\ N' = 0 /\ K' = 0
    /\ pc' = "coloring_mis_loop"
    /\ UNCHANGED <<NDEBUG, graphVars, restCol, y, z, ret>>

ColoringMisRound ==
    /\ pc = "coloring_mis_loop"
    /\ N < num_rows
    /\ LET r == coloring_mis_round(x, K)
       IN  x' = r.x /\ N' = N + r.N
    /\ K' = K + 1
    /\ UNCHANGED <<pc, NDEBUG, graphVars, restCol, y, z, ret>>

ColoringMisReturn ==
    /\ pc = "coloring_mis_loop"
    /\ ~(N < num_rows)
    /\ ret' = K
    /\ pc' = "coloring_mis_done"
    /\ UNCHANGED <<NDEBUG, graphVars, restCol, x, y, z, N, K>>

\* vertex_coloring_jones_plassmann up to its loop.
JonesPlassmannEnter ==
    /\ pc = "coloring_jp"
    /\ x' = Fill(num_rows, -1)
    /\ z' = jones_plassmann_weights(y)
    /\ N' = 0 /\ K' = 0
    /\ pc' = "coloring_jp_loop"
    /\ UNCHANGED <<NDEBUG, graphVars, restCol, y, ret>>

\* vertex_coloring_LDF up to its loop.
LDFEnter ==
    /\ pc = "coloring_LDF"
    /\ x' = Fill(num_rows, -1)
    /\ z' = Fill(num_rows, 0)
    /\ N' = 0 /\ K' = 0
    /\ pc' = "coloring_LDF_loop"
    /\ UNCHANGED <<NDEBUG, graphVars, restCol, y, ret>>

\* One pass of the loop of either parallel colouring.
ColoringParallelRound ==
    /\ pc \in {"coloring_jp_loop", "coloring_LDF_loop"}
    /\ N < num_rows
    /\ LET w == IF pc = "coloring_LDF_loop" THEN LDF_weights(x, y, z) ELSE z
           r == coloring_parallel_round(x, w, K)
       IN  /\ z' = w
           /\ x' = r.x
           /\ N' = N + r.N
           /\ IF r.st = "ok"
              THEN K' = K + 1 /\ pc' = pc
              ELSE K' = K /\ pc' = "undefined_behaviour"
    /\ UNCHANGED <<NDEBUG, graphVars, restCol, y, ret>>

ColoringParallelReturn ==
    /\ pc \in {"coloring_jp_loop", "coloring_LDF_loop"}
    /\ ~(N < num_rows)
    /\ ret' = max_element(x)
    /\ pc' = IF pc = "coloring_jp_loop" THEN "coloring_jp_done"
             ELSE "coloring_LDF_done"
    /\ UNCHANGED <<NDEBUG, graphVars, restCol, x, y, z, N, K>>

NextColoring ==
    \/ ColoringMisEnter
    \/ ColoringMisRound
    \/ ColoringMisReturn
    \/ JonesPlassmannEnter
    \/ LDFEnter
    \/ ColoringParallelRound
    \/ ColoringParallelReturn

SpecColoring == InitColoring /\ [][NextColoring]_vars

ColoringDone == {"coloring_mis_done", "coloring_jp_done", "coloring_LDF_done"}

\* C7: on return from any of the three colourings of a symmetric graph,
\* every vertex has a colour >= 0 and the two ends of every stored edge
\* (i, j) with i # j have different colours.
C7_ColoringValid ==
    (pc \in ColoringDone /\ Symmetric) =>
        /\ \A i \in 0..(num_rows - 1) : x[i] >= 0
        /\ \A i \in 0..(num_rows - 1) :
              \A j \in Adj(i) : i # j => x[i] # x[j]

C7_Witness ==
    /\ pc = "coloring_LDF_done" /\ Symmetric
    /\ \E i \in 0..(num_rows - 1) : i \in Adj(i)
    /\ \E i, j \in 0..(num_rows - 1) : i # j /\ j \in Adj(i)
    /\ \E i \in 0..(num_rows - 1) : x[i] < K - 1 /\ x[i] = 1

CompleteGraph ==
    \A i, j \in 0..(num_rows - 1) : i # j => j \in Adj(i)

\* What vertex_coloring_mis returns: ret is the number of colours, every
\* x[i] is a colour in [0, ret-1], every such colour is used, and a
\* complete graph gets as many colours as it has vertices.
ColoringMisPost ==
    /\ \A i \in 0..(num_rows - 1) : x[i] \in 0..(ret - 1)
    /\ \A v \in 0..(ret - 1) : \E i \in 0..(num_rows - 1) : x[i] = v
    /\ CompleteGraph => ret = num_rows

\* C8: vertex_coloring_mis returns after at most num_rows passes of its
\* loop (every pass colours a vertex), and it returns the number of colours
\* used, with no sentinel value left in x.
C8_ColoringMisTerminates ==
    (pc \in {"coloring_mis_loop", "coloring_mis_done"}) =>
        /\ K <= N
        /\ N <= num_rows
        /\ pc = "coloring_mis_done" => ColoringMisPost

C8_Witness ==
    /\ pc = "coloring_mis_done" /\ ColoringMisPost
    /\ CompleteGraph /\ ret = MaxN

\* The weights one pass of a parallel colouring hands to the parallel
\* kernel, and the array x its call of vertex_coloring_first_fit receives.
ColoringRoundWeights ==
    IF pc = "coloring_LDF_loop" THEN LDF_weights(x, y, z) ELSE z
FirstFitInput ==
    coloring_revert(
        maximal_independent_set_parallel(-1, K, -2, x, ColoringRoundWeights, 1).x)

\* A pass of the loop of vertex_coloring_jones_plassmann or
\* vertex_coloring_LDF is about to run.
FirstFitCalled ==
    pc \in {"coloring_jp_loop", "coloring_LDF_loop"} /\ N < num_rows

\* C19: in every call vertex_coloring_first_fit(x, K) the two parallel
\* colourings make on a symmetric graph, no vertex holding K has a
\* neighbour other than itself with a colour >= K, so every index into the
\* mask of K entries is in 0..K-1; the call leaves no value above K in x
\* and changes only vertices that held K.
C19_FirstFitMaskInRange ==
    (FirstFitCalled /\ Symmetric) =>
        LET xin == FirstFitInput
            out == vertex_coloring_first_fit(xin, K)
        IN  /\ \A i \in 0..(num_rows - 1) :
                  xin[i] = K =>
                     \A j \in Adj(i) : (j # i /\ xin[j] >= 0) => xin[j] \in 0..(K - 1)
            /\ out.st = "ok"
            /\ \A i \in 0..(num_rows - 1) : out.x[i] <= K
            /\ \A i \in 0..(num_rows - 1) : out.x[i] # xin[i] => xin[i] = K

\* A call in a later pass, on a graph with a stored diagonal entry: a
\* vertex holding K has a coloured neighbour and gets a colour below K.
C19_Witness ==
    /\ FirstFitCalled /\ Symmetric /\ K >= 1
    /\ \E i \in 0..(num_rows - 1) : i \in Adj(i) /\ FirstFitInput[i] = K
    /\ LET xin == FirstFitInput
           out == vertex_coloring_first_fit(xin, K)
       IN  /\ out.st = "ok"
           /\ \E i \in 0..(num_rows - 1) :
                 /\ xin[i] = K /\ out.x[i] < K
                 /\ \E j \in Adj(i) : j # i /\ xin[j] >= 0

----------------------------------------------------------------------------
(* maximal_independent_set_parallel, one vertex at a time                  *)

restLuby == <<lloydVars, misKVars, incVars, colVars, bfsVars, bfbVars,
              components, DFS, component>>

InitLuby ==
    /\ pc = "luby_while"
    /\ NDEBUG = FALSE
    /\ \E n \in 1..MaxN : \E G \in Graphs(n) : InitGraph(G, UnitW(G))
    /\ IdleInc /\ IdleCol /\ IdleBfs /\ IdleCc /\ IdleBfb
    /\ IdleLloyd /\ IdleMisK
    /\ active = 0 /\ C = 1 /\ F = 2
    /\ x \in [0..(num_rows - 1) -> {active, C, F}]
    /\ x_in = x /\ luby_seen = {}
    /\ y \in [0..(num_rows - 1) -> 0..MaxY]
    /\ max_iters \in (-1)..MaxIters
    /\ N = 0
    /\ num_iters = 0
    /\ active_nodes = TRUE

\* The while loop is entered for one more sweep.
LubySweepBegin ==
    /\ pc = "luby_while"
    /\ mis_parallel_continue(active_nodes, max_iters, num_iters)
    /\ active_nodes' = FALSE
    /\ num_iters' = num_iters + 1
    /\ next_i' = 0
    /\ luby_seen' = {}
    /\ pc' = "luby_vertex"
    /\ UNCHANGED <<NDEBUG, graphVars, restLuby, active, C, F, x, x_in, y,
                   max_iters, N>>

\* Vertex next_i is examined.  luby_seen records the examination, with x
\* as it was, when the vertex holds the active value and some neighbour
\* holds C.
LubyVertex ==
    /\ pc = "luby_vertex"
    /\ next_i < num_rows
    /\ LET r == mis_parallel_vertex(active, C, F, y, next_i,
                   [x |-> x, N |-> N, active_nodes |-> active_nodes])
       IN  x' = r.x /\ N' = r.N /\ active_nodes' = r.active_nodes
    /\ luby_seen' = IF x[next_i] = active /\ \E j \in Adj(next_i) : x[j] = C
                    THEN luby_seen \cup {[i |-> next_i, x |-> x]}
                    ELSE luby_seen
    /\ next_i' = next_i + 1
    /\ UNCHANGED <<pc, NDEBUG, graphVars, restLuby, active, C, F, x_in, y,
                   max_iters, num_iters>>

\* The vertex loop ends.
LubySweepEnd ==
    /\ pc = "luby_vertex"
    /\ ~(next_i < num_rows)
    /\ pc' = "luby_while"
    /\ UNCHANGED <<NDEBUG, graphVars, restLuby, misVars, next_i>>

LubyReturn ==
    /\ pc = "luby_while"
    /\ ~mis_parallel_continue(active_nodes, max_iters, num_iters)
    /\ pc' = "luby_done"
    /\ UNCHANGED <<NDEBUG, graphVars, restLuby, misVars, next_i>>

NextLuby ==
    \/ LubySweepBegin
    \/ LubyVertex
    \/ LubySweepEnd
    \/ LubyReturn

SpecLuby == InitLuby /\ [][NextLuby]_vars

\* Vertex next_i is about to be examined and holds the active value.
LubyExamined == pc = "luby_vertex" /\ next_i < num_rows /\ x[next_i] = active

\* Neighbour j ranks below vertex i: smaller weight, or equal weight and
\* smaller index.
RanksBelow(j, i) == y[j] < y[i] \/ (y[j] = y[i] /\ j < i)

\* Three mutually adjacent vertices, all active on entry, of equal weight.
LubyTriangle ==
    /\ num_rows = 3 /\ CompleteGraph
    /\ \A i \in 0..2 : x_in[i] = active /\ y[i] = y[0]

\* C13: a vertex is promoted to C only when every other neighbour that
\* still holds the active value ranks below it, the larger index winning
\* among equal weights; an all-active triangle of equal weights ends as
\* x = [F, F, C] with count 1.
C13_LubyTieBreak ==
    /\ [][(LubyExamined /\ x'[next_i] = C) =>
             \A j \in Adj(next_i) \ {next_i} :
                 x[j] = active => RanksBelow(j, next_i)]_vars
    /\ []((pc = "luby_done" /\ LubyTriangle /\ max_iters # 0) =>
             (x[0] = F /\ x[1] = F /\ x[2] = C /\ N = 1))

C13_Witness ==
    /\ pc = "luby_done" /\ LubyTriangle /\ max_iters # 0
    /\ x[2] = C /\ N = 1

\* Every vertex has been examined in the current sweep.
LubySweepOver == pc = "luby_vertex" /\ ~(next_i < num_rows)

\* C17 as stated: a vertex that holds the active value when examined and
\* has a neighbour in C at that moment has been set to F when that same
\* sweep is over, wherever the neighbour is stored in its row and whatever
\* the weights of its other active neighbours.
C17_LubyDemotion ==
    LubySweepOver => \A t \in luby_seen : x[t.i] = F

\* The stored neighbours of i that come before position jj of its row.
Before(i, jj) == {Aj[q] : q \in Ap[i]..(jj - 1)}

\* With the states xs, some neighbour in C is stored in the row of i with
\* no active neighbour that outranks i before it.
DemotingNeighbourIn(xs, i) ==
    \E jj \in Ap[i]..(Ap[i + 1] - 1) :
        /\ xs[Aj[jj]] = C
        /\ \A j \in Before(i, jj) :
              xs[j] = active => ~mis_neighbour_wins(y, i, j)

DemotingNeighbour(i) == DemotingNeighbourIn(x, i)

\* Some vertex examined after t.i, whose row holds t.i, has been promoted
\* to C since the examination t.
MarkedLater(t) ==
    \E j \in (t.i + 1)..(num_rows - 1) :
        t.x[j] = active /\ x[j] = C /\ t.i \in Adj(j)

\* C17 as amended: an examined active vertex is set to F by its own
\* examination exactly when its row holds a neighbour in C that no
\* outranking active neighbour precedes; a vertex with a neighbour in C
\* that such an active neighbour precedes keeps the active value at its
\* examination, which sets active_nodes.  When the sweep is over, a vertex
\* examined next to a neighbour in C is F exactly when its own examination
\* demoted it or a vertex examined after it, whose row holds it, was
\* promoted in the sweep; otherwise it still holds the active value, with
\* active_nodes set.  It is never promoted in that sweep.
C17_LubyDemotionInRowOrder ==
    /\ [][LubyExamined =>
            /\ DemotingNeighbour(next_i) <=> x'[next_i] = F
            /\ ((\E j \in Adj(next_i) : x[j] = C)
                   /\ ~DemotingNeighbour(next_i))
                  => (x'[next_i] = active /\ active_nodes')]_vars
    /\ [](LubySweepOver =>
            \A t \in luby_seen :
                /\ x[t.i] = F <=> (DemotingNeighbourIn(t.x, t.i) \/ MarkedLater(t))
                /\ x[t.i] # F => (x[t.i] = active /\ active_nodes))

\* A sweep over a symmetric graph is over; vertex u was examined next to a
\* neighbour in C behind an outranking active neighbour and still holds
\* the active value, and vertex v was set to F by its own examination.
C17_Witness ==
    /\ LubySweepOver /\ Symmetric
    /\ \E u, v \in luby_seen :
          /\ ~DemotingNeighbourIn(u.x, u.i) /\ x[u.i] = active /\ active_nodes
          /\ DemotingNeighbourIn(v.x, v.i) /\ x[v.i] = F

\* A sweep is over in which a vertex kept the active value at its own
\* examination next to a neighbour in C and was then marked F by a
\* neighbour promoted later in the sweep.
C17_WitnessMarkedLater ==
    /\ LubySweepOver /\ Symmetric
    /\ \E t \in luby_seen :
          ~DemotingNeighbourIn(t.x, t.i) /\ MarkedLater(t) /\ x[t.i] = F

----------------------------------------------------------------------------
(* breadth_first_search                                                    *)

\* The scan of row i: every unmarked neighbour is appended to order and
\* gets level cl.  acc holds order, level and N.
RECURSIVE bfs_row(_, _, _, _)
bfs_row(i, jj, cl, acc) ==
    IF jj >= Ap[i + 1] THEN acc
    ELSE LET j == Aj[jj]
         IN  IF acc.level[j] = -1
             THEN bfs_row(i, jj + 1, cl,
                     [order |-> [acc.order EXCEPT ![acc.N] = j],
                      level |-> [acc.level EXCEPT ![j] = cl],
                      N |-> acc.N + 1])
             ELSE bfs_row(i, jj + 1, cl, acc)

\* The loop over the nodes order[ii], ii in [ii, lend), of the last level.
RECURSIVE bfs_window(_, _, _, _)
bfs_window(ii, lend, cl, acc) ==
    IF ii >= lend THEN acc
    ELSE bfs_window(ii + 1, lend, cl,
                    bfs_row(acc.order[ii], Ap[acc.order[ii]], cl, acc))

\* current_level++.
bfs_next_level_same(cl) == cl
bfs_next_level(cl) == cl + 1

restBfs == <<lloydVars, misKVars, incVars, colVars, ccVars, bfbVars, active, C, F, x, x_in, luby_seen, y,
             max_iters, num_iters, active_nodes>>

InitBfs ==
    /\ pc = "bfs"
    /\ NDEBUG = FALSE
    /\ \E n \in 1..MaxN : \E G \in Graphs(n) : InitGraph(G, UnitW(G))
    /\ IdleInc /\ IdleCol /\ IdleCc /\ IdleBfb
    /\ IdleLloyd /\ IdleMisK
    /\ active = 0 /\ C = 0 /\ F = 0 /\ x = <<>> /\ x_in = <<>> /\ luby_seen = {} /\ y = <<>>
    /\ max_iters = 0 /\ num_iters = 0 /\ active_nodes = FALSE
    /\ seed \in 0..(num_rows - 1)
    /\ order = Fill(num_rows, Undef)
    /\ level = Fill(num_rows, -1)
    /\ N = 0 /\ level_begin = 0 /\ level_end = 0 /\ current_level = 0

\* breadth_first_search up to its loop.
BfsEnter ==
    /\ pc = "bfs"
    /\ order' = [order EXCEPT ![0] = seed]
    /\ level' = [level EXCEPT ![seed] = 0]
    /\ N' = 1
    /\ level_begin' = 0
    /\ level_end' = 1
    /\ current_level' = 1
    /\ pc' = "bfs_loop"
    /\ UNCHANGED <<NDEBUG, graphVars, restBfs, seed>>

\* One pass of the while loop: the nodes of the last level are expanded.
BfsLevel ==
    /\ pc = "bfs_loop"
    /\ level_begin < level_end
    /\ LET r == bfs_window(level_begin, level_end, current_level,
                           [order |-> order, level |-> level, N |-> N])
       IN  /\ order' = r.order
           /\ level' = r.level
           /\ N' = r.N
           /\ level_end' = r.N
    /\ level_begin' = level_end
    /\ current_level' = bfs_next_level(current_level)
    /\ UNCHANGED <<pc, NDEBUG, graphVars, restBfs, seed>>

BfsReturn ==
    /\ pc = "bfs_loop"
    /\ ~(level_begin < level_end)
    /\ pc' = "bfs_done"
    /\ UNCHANGED <<NDEBUG, graphVars, restBfs, bfsVars, N>>

NextBfs ==
    \/ BfsEnter
    \/ BfsLevel
    \/ BfsReturn

SpecBfs == InitBfs /\ [][NextBfs]_vars

\* The vertices within l stored edges of s.
RECURSIVE Ball(_, _)
Ball(s, l) ==
    IF l = 0 THEN {s}
    ELSE LET B == Ball(s, l - 1) IN B \cup UNION {Adj(i) : i \in B}

\* The number of edges of a shortest path from s to j, -1 when there is none.
Distance(s, j) ==
    IF j \notin Ball(s, num_rows) THEN -1
    ELSE CHOOSE l \in 0..num_rows :
            j \in Ball(s, l) /\ \A l2 \in 0..(l - 1) : j \notin Ball(s, l2)

\* C9: after breadth_first_search, level[seed] = 0, level[j] is the
\* shortest-path length from seed for every reachable j and -1 for every
\* other j, and order[0..N-1] lists the reachable vertices, each once.
C9_BfsLevels ==
    pc = "bfs_done" =>
        /\ level[seed] = 0
        /\ \A j \in 0..(num_rows - 1) : level[j] = Distance(seed, j)
        /\ N = Cardinality(ReachFrom({seed}))
        /\ {order[p] : p \in 0..(N - 1)} = ReachFrom({seed})

C9_Witness ==
    /\ pc = "bfs_done"
    /\ \E j \in 0..(num_rows - 1) : level[j] = 2
    /\ seed # 0

C9_WitnessUnreached ==
    /\ pc = "bfs_done"
    /\ \E j \in 0..(num_rows - 1) : level[j] = -1
    /\ \E j \in 0..(num_rows - 1) : level[j] = 1

----------------------------------------------------------------------------
(* connected_components                                                    *)

\* DFS.push(j); the top of the stack is the head of the sequence.
cc_push_drop(stack, j) == stack
cc_push(stack, j) == <<j>> \o stack

\* The scan of the row of top: every unlabelled neighbour is pushed and
\* labelled.  acc holds components and DFS.
RECURSIVE cc_row(_, _, _, _)
cc_row(top, jj, comp, acc) ==
    IF jj >= Ap[top + 1] THEN acc
    ELSE LET j == Aj[jj]
         IN  IF acc.components[j] = -1
             THEN cc_row(top, jj + 1, comp,
                     [components |-> [acc.components EXCEPT ![j] = comp],
                      DFS |-> cc_push(acc.DFS, j)])
             ELSE cc_row(top, jj + 1, comp, acc)

\* while (!DFS.empty()).
RECURSIVE cc_drain(_, _)
cc_drain(comp, acc) ==
    IF acc.DFS = <<>> THEN acc
    ELSE LET top == Head(acc.DFS)
         IN  cc_drain(comp,
                cc_row(top, Ap[top], comp,
                       [components |-> acc.components, DFS |-> Tail(acc.DFS)]))

restCc == <<lloydVars, misKVars, incVars, misVars, K, z, bfsVars, bfbVars>>

InitCc ==
    /\ pc = "cc"
    /\ NDEBUG = FALSE
    /\ \E n \in 1..MaxN : \E G \in Graphs(n) : InitGraph(G, UnitW(G))
    /\ IdleInc /\ IdleMis /\ IdleBfs /\ IdleBfb
    /\ IdleLloyd /\ IdleMisK
    /\ K = 0 /\ z = <<>> /\ ret = -1
    /\ components = Fill(num_rows, Undef)
    /\ DFS = <<>> /\ component = 0 /\ next_i = 0

\* connected_components up to its vertex loop.
CcEnter ==
    /\ pc = "cc"
    /\ components' = Fill(num_rows, -1)
    /\ DFS' = <<>>
    /\ component' = 0
    /\ next_i' = 0
    /\ pc' = "cc_loop"
    /\ UNCHANGED <<NDEBUG, graphVars, restCc, ret>>

\* One pass of the vertex loop.
CcVertex ==
    /\ pc = "cc_loop"
    /\ next_i < num_rows
    /\ IF components[next_i] = -1
       THEN LET r == cc_drain(component,
                        [components |-> [components EXCEPT ![next_i] = component],
                         DFS |-> cc_push(DFS, next_i)])
            IN  /\ components' = r.components
                /\ DFS' = r.DFS
                /\ component' = component + 1
       ELSE UNCHANGED <<components, DFS, component>>
    /\ next_i' = next_i + 1
    /\ UNCHANGED <<pc, NDEBUG, graphVars, restCc, ret>>

CcReturn ==
    /\ pc = "cc_loop"
    /\ ~(next_i < num_rows)
    /\ ret' = component
    /\ pc' = "cc_done"
    /\ UNCHANGED <<NDEBUG, graphVars, restCc, ccVars>>

NextCc ==
    \/ CcEnter
    \/ CcVertex
    \/ CcReturn

SpecCc == InitCc /\ [][NextCc]_vars

\* C10: on a symmetric graph connected_components returns k with every
\* label in [0, k), every label in [0, k) used, and two vertices labelled
\* alike exactly when a path connects them.
C10_ComponentsPartition ==
    (pc = "cc_done" /\ Symmetric) =>
        /\ \A i \in 0..(num_rows - 1) : components[i] \in 0..(ret - 1)
        /\ \A v \in 0..(ret - 1) : \E i \in 0..(num_rows - 1) : components[i] = v
        /\ \A i, j \in 0..(num_rows - 1) :
              (components[i] = components[j]) <=> (j \in ReachFrom({i}))

C10_Witness ==
    /\ pc = "cc_done" /\ Symmetric
    /\ \E i \in 0..(num_rows - 1) : i \in Adj(i)
    /\ \E i, j \in 0..(num_rows - 1) :
          i # j /\ components[i] = components[j] /\ j \notin Adj(i)

----------------------------------------------------------------------------
(* csr_propagate_max and maximal_independent_set_k_parallel                *)

\* The scan of row i of csr_propagate_max from position jj on; acc holds
\* k_max and v_max.
RECURSIVE propagate_max_row_no_tie(_, _, _, _, _)
propagate_max_row_no_tie(ik, iv, i, jj, acc) ==
    IF jj >= Ap[i + 1] THEN acc
    ELSE LET j   == Aj[jj]
             k_j == ik[j]
             v_j == iv[j]
         IN  propagate_max_row_no_tie(ik, iv, i, jj + 1,
                IF k_j = acc.k_max THEN acc
                ELSE IF v_j < acc.v_max THEN acc
                ELSE IF v_j > acc.v_max
                THEN [k_max |-> k_j, v_max |-> v_j]
                ELSE acc)
RECURSIVE propagate_max_row(_, _, _, _, _)
propagate_max_row(ik, iv, i, jj, acc) ==
    IF jj >= Ap[i + 1] THEN acc
    ELSE LET j   == Aj[jj]
             k_j == ik[j]
             v_j == iv[j]
         IN  propagate_max_row(ik, iv, i, jj + 1,
                IF k_j = acc.k_max THEN acc
                ELSE IF v_j < acc.v_max THEN acc
                ELSE IF v_j > acc.v_max \/ k_j > acc.k_max
                THEN [k_max |-> k_j, v_max |-> v_j]
                ELSE acc)

\* The loop over the rows of csr_propagate_max from row i on; acc holds the
\* output arrays o_keys and o_vals.
RECURSIVE propagate_max_loop(_, _, _, _)
propagate_max_loop(ik, iv, i, acc) ==
    IF i >= num_rows THEN acc
    ELSE LET r == propagate_max_row(ik, iv, i, Ap[i],
                                    [k_max |-> ik[i], v_max |-> iv[i]])
         IN  propagate_max_loop(ik, iv, i + 1,
                [keys |-> [acc.keys EXCEPT ![i] = r.k_max],
                 vals |-> [acc.vals EXCEPT ![i] = r.v_max]])

\* csr_propagate_max: the output arrays o_keys and o_vals, which hold the
\* pairs of two passes before on entry.
csr_propagate_max(ik, iv) ==
    propagate_max_loop(ik, iv, 0, [keys |-> ik, vals |-> iv])

\* t passes of csr_propagate_max, each followed by the two swaps.
RECURSIVE mis_k_propagate(_, _, _)
mis_k_propagate(ik, iv, t) ==
    IF t <= 0 THEN [keys |-> ik, vals |-> iv]
    ELSE LET r == csr_propagate_max(ik, iv)
         IN  mis_k_propagate(r.keys, r.vals, t - 1)

\* The loop that promotes the local maxima and resets the pairs to (i, x[i]).
mis_k_promote(keys, act, x_) ==
    [i \in 0..(num_rows - 1) |-> IF keys[i] = i /\ act[i] THEN 1 ELSE x_[i]]

\* The loop that retires every vertex that a promoted vertex reached.
mis_k_retire(vals, act, y_) ==
    [active |-> [i \in 0..(num_rows - 1) |-> IF vals[i] = 1 THEN FALSE ELSE act[i]],
     i_vals |-> [i \in 0..(num_rows - 1) |-> IF vals[i] = 1 THEN -1 ELSE y_[i]],
     work_left |-> \E i \in 0..(num_rows - 1) : vals[i] # 1]

\* One pass of the loop over iter.
mis_k_iteration(k_, ik, iv, act, x_, y_) ==
    LET p1 == mis_k_propagate(ik, iv, k_)
        x1 == mis_k_promote(p1.keys, act, x_)
        p2 == mis_k_propagate([i \in 0..(num_rows - 1) |-> i], x1, k_)
        r  == mis_k_retire(p2.vals, act, y_)
    IN  [x |-> x1, active |-> r.active, i_vals |-> r.i_vals,
         i_keys |-> [i \in 0..(num_rows - 1) |-> i], work_left |-> r.work_left]

\* The weights y[i] of the model: the values of 0..MaxY and one below the
\* value -1 that a retired vertex carries.
MisKWeights == {-2} \cup 0..MaxY

restMisK == <<incVars, colVars, bfsVars, ccVars, bfbVars, lloydVars,
              active, C, F, x_in, luby_seen, N, active_nodes>>

InitMisK ==
    /\ pc = "mis_k"
    /\ NDEBUG = FALSE
    /\ \E n \in 1..MaxN : \E G \in SymGraphs(n) : InitGraph(G, UnitW(G))
    /\ IdleInc /\ IdleCol /\ IdleBfs /\ IdleCc /\ IdleBfb /\ IdleLloyd
    /\ active = 0 /\ C = 0 /\ F = 0 /\ x_in = <<>> /\ luby_seen = {} /\ N = 0
    /\ active_nodes = FALSE
    /\ k_mis \in 1..2
    /\ x = Fill(num_rows, Undef)
    /\ y \in [0..(num_rows - 1) -> MisKWeights]
    /\ max_iters \in {-1, MaxIters}
    /\ num_iters = 0
    /\ i_keys = Fill(num_rows, Undef)
    /\ i_vals = Fill(num_rows, Undef)
    /\ k_active = Fill(num_rows, TRUE)

\* maximal_independent_set_k_parallel up to its loop over iter.
MisKEnter ==
    /\ pc = "mis_k"
    /\ i_keys' = [i \in 0..(num_rows - 1) |-> i]
    /\ i_vals' = y
    /\ x' = Fill(num_rows, 0)
    /\ num_iters' = 0
    /\ pc' = "mis_k_loop"
    /\ UNCHANGED <<NDEBUG, graphVars, restMisK, y, max_iters, k_mis, k_active>>

\* One pass of the loop over iter; the call returns when no work is left.
MisKIteration ==
    /\ pc = "mis_k_loop"
    /\ max_iters = -1 \/ num_iters < max_iters
    /\ num_iters < MisKSweepCap
    /\ LET r == mis_k_iteration(k_mis, i_keys, i_vals, k_active, x, y)
       IN  /\ x' = r.x
           /\ k_active' = r.active
           /\ i_keys' = r.i_keys
           /\ i_vals' = r.i_vals
           /\ IF r.work_left
              THEN num_iters' = num_iters + 1 /\ pc' = "mis_k_loop"
              ELSE num_iters' = num_iters /\ pc' = "mis_k_done"
    /\ UNCHANGED <<NDEBUG, graphVars, restMisK, y, max_iters, k_mis>>

\* The loop over iter ends on its own condition.
MisKReturn ==
    /\ pc = "mis_k_loop"
    /\ ~(max_iters = -1 \/ num_iters < max_iters)
    /\ pc' = "mis_k_done"
    /\ UNCHANGED <<NDEBUG, graphVars, restMisK, x, y, max_iters, num_iters,
                   misKVars>>

NextMisK ==
    \/ MisKEnter
    \/ MisKIteration
    \/ MisKReturn

SpecMisK == InitMisK /\ [][NextMisK]_vars

\* C11: during and after maximal_independent_set_k_parallel with separation
\* k >= 1 on a symmetric graph, any two distinct vertices u, v with
\* x[u] = 1 and x[v] = 1 are more than k edges apart.
C11_DistanceKSeparation ==
    pc \in {"mis_k_loop", "mis_k_done"} =>
        \A u, v \in 0..(num_rows - 1) :
            (u # v /\ x[u] = 1 /\ x[v] = 1 /\ Symmetric)
                => v \notin Ball(u, k_mis)

C11_Witness ==
    /\ pc = "mis_k_done" /\ Symmetric
    /\ \E u, v \in 0..(num_rows - 1) :
          /\ u # v /\ x[u] = 1 /\ x[v] = 1
          /\ v \in Ball(u, k_mis + 1)
    /\ \E i \in 0..(num_rows - 1) : y[i] < 0

----------------------------------------------------------------------------
(* cluster_center                                                          *)

\* std::numeric_limits<T>::max() of the floating-point weight type T.
Inf == 1000000

\* Ax[jj] + d[j] in floating point: adding an edge weight to the largest
\* finite value rounds back to it.
fadd(w, dj) == IF dj = Inf THEN Inf ELSE w + dj

\* dist[ml] + dist[ln] in floating point: a sum with the largest finite
\* value is not below it.
center_add(u, v) == IF u >= Inf \/ v >= Inf THEN Inf ELSE u + v

\* std::min and std::max.
center_min(u, v) == IF v < u THEN v ELSE u
center_max(u, v) == IF u < v THEN v ELSE u

\* The scan of the row of node i, whose local index is m, in the
\* Floyd-Warshall initialisation; acc holds dist and st, which records a
\* failed assertion or an out-of-range access.
RECURSIVE center_init_row(_, _, _, _, _, _, _)
center_init_row(a, NN, nd, m, i, jj, acc) ==
    IF acc.st # "ok" \/ jj >= Ap[i + 1] THEN acc
    ELSE LET j == Aj[jj]
             w == Ax[jj]
         IN  IF cm[j] # a
             THEN center_init_row(a, NN, nd, m, i, jj + 1, acc)
             ELSE LET n  == L[j]
                      mn == m * NN + n
                  IN  IF n = Undef THEN [acc EXCEPT !.st = "ub"]
                      ELSE IF ~nd /\ ~(n >= 0 /\ n < NN)
                      THEN [acc EXCEPT !.st = "assert"]
                      ELSE IF mn \notin DOMAIN acc.dist
                      THEN [acc EXCEPT !.st = "ub"]
                      ELSE center_init_row(a, NN, nd, m, i, jj + 1,
                              [acc EXCEPT !.dist[mn] = w])

\* The Floyd-Warshall initialisation from local index m on.
RECURSIVE center_init(_, _, _, _, _)
center_init(a, NN, nd, m, acc) ==
    IF acc.st # "ok" \/ m >= NN THEN acc
    ELSE LET pos == ICp[a] + m
         IN  IF pos \notin DOMAIN ICi \/ ICi[pos] \notin 0..(num_rows - 1)
             THEN [acc EXCEPT !.st = "ub"]
             ELSE LET r == center_init_row(a, NN, nd, m, ICi[pos],
                                           Ap[ICi[pos]], acc)
                  IN  IF r.st # "ok" THEN r
                      ELSE center_init(a, NN, nd, m + 1,
                              [r EXCEPT !.dist[m * NN + m] = 0])

\* The innermost loop of the Floyd-Warshall iteration, from column n on,
\* in place.
RECURSIVE center_floyd_warshall_n(_, _, _, _, _)
center_floyd_warshall_n(NN, l, m, n, dist) ==
    IF n >= NN THEN dist
    ELSE LET mn == m * NN + n
             ml == m * NN + l
             ln == l * NN + n
             v  == center_min(dist[mn], center_add(dist[ml], dist[ln]))
         IN  IF v = dist[mn]
             THEN center_floyd_warshall_n(NN, l, m, n + 1, dist)
             ELSE center_floyd_warshall_n(NN, l, m, n + 1,
                     [dist EXCEPT ![mn] = v])

\* Its middle loop, from row m on.  (The comparison of the two matrices
\* makes the evaluator finish a row before it starts the next one; both
\* branches pass on the matrix the row leaves.)
RECURSIVE center_floyd_warshall_m(_, _, _, _)
center_floyd_warshall_m(NN, l, m, dist) ==
    IF m >= NN THEN dist
    ELSE LET row == center_floyd_warshall_n(NN, l, m, 0, dist)
         IN  IF row = dist
             THEN center_floyd_warshall_m(NN, l, m + 1, dist)
             ELSE center_floyd_warshall_m(NN, l, m + 1, row)

\* The main Floyd-Warshall iteration from intermediate node l on.
RECURSIVE center_floyd_warshall(_, _, _)
center_floyd_warshall(NN, l, dist) ==
    IF l >= NN THEN dist
    ELSE LET pass == center_floyd_warshall_m(NN, l, 0, dist)
         IN  IF pass = dist
             THEN center_floyd_warshall(NN, l + 1, dist)
             ELSE center_floyd_warshall(NN, l + 1, pass)

\* ecc[m]: the largest entry of row m of dist, from column n on.
RECURSIVE center_ecc(_, _, _, _, _)
center_ecc(NN, dist, m, n, e) ==
    IF n >= NN THEN e
    ELSE center_ecc(NN, dist, m, n + 1, center_max(e, dist[m * NN + n]))

\* std::min_element(ecc.begin(), ecc.end()) - ecc.begin(): the first
\* position of a smallest element, 0 for an empty vector.
center_min_element_last(NN, ecc) ==
    IF NN <= 0 THEN 0
    ELSE CHOOSE m \in 0..(NN - 1) :
            /\ \A n \in 0..(NN - 1) : ecc[m] <= ecc[n]
            /\ \A n \in (m + 1)..(NN - 1) : ecc[m] < ecc[n]
center_min_element(NN, ecc) ==
    IF NN <= 0 THEN 0
    ELSE CHOOSE m \in 0..(NN - 1) :
            /\ \A n \in 0..(NN - 1) : ecc[m] <= ecc[n]
            /\ \A n \in 0..(m - 1) : ecc[m] < ecc[n]

\* cluster_center(a, ...): the node returned in i and, in st, the first
\* failed assertion (when assertions are compiled in) or out-of-range or
\* uninitialised access.  For N < 0 the vector dist has N*N > 0 entries, all
\* of them max, and no loop over m < N runs: the connectivity assertion
\* fails, or, without assertions, std::vector<T> ecc(N, 0) throws
\* std::length_error.
cluster_center(a, nd) ==
    IF (a + 1) \notin DOMAIN ICp \/ ICp[a + 1] = Undef \/ ICp[a] = Undef
    THEN [i |-> Undef, st |-> "ub"]
    ELSE LET NN == ICp[a + 1] - ICp[a]
         IN  IF NN < 0
             THEN [i |-> Undef, st |-> IF nd THEN "throw" ELSE "assert"]
             ELSE LET r0  == center_init(a, NN, nd, 0,
                                [dist |-> Fill(NN * NN, Inf), st |-> "ok"])
                      fw  == center_floyd_warshall(NN, 0, r0.dist)
                      ecc == [m \in 0..(NN - 1) |-> center_ecc(NN, fw, m, 0, 0)]
                      pos == ICp[a] + center_min_element(NN, ecc)
                  IN  IF r0.st # "ok" THEN [i |-> Undef, st |-> r0.st]
                      ELSE IF ~nd /\ \E p \in DOMAIN fw : ~(fw[p] < Inf)
                      THEN [i |-> Undef, st |-> "assert"]
                      ELSE IF pos \notin DOMAIN ICi \/ ICi[pos] = Undef
                      THEN [i |-> Undef, st |-> "ub"]
                      ELSE [i |-> ICi[pos], st |-> "ok"]

\* The nodes of cluster a.
Members(a) == {i \in 0..(num_rows - 1) : cm[i] = a}

\* The length of the edge stored from i to j, Inf when there is none.
EdgeLength(i, j) ==
    LET S == {Ax[jj] : jj \in {q \in Ap[i]..(Ap[i + 1] - 1) : Aj[q] = j}}
    IN  IF S = {} THEN Inf ELSE CHOOSE w \in S : \A w2 \in S : w <= w2

\* The smallest element of a non-empty set of lengths.
Least(S) == CHOOSE u \in S : \A v \in S : u <= v

\* The length of a shortest walk from u to v of at most h edges that stays
\* inside the node set S, Inf when there is none.
RECURSIVE WalkLength(_, _, _, _)
WalkLength(S, u, v, h) ==
    IF h = 0 THEN (IF u = v THEN 0 ELSE Inf)
    ELSE Least({WalkLength(S, u, v, h - 1)} \cup
               {center_add(WalkLength(S, u, w, h - 1), EdgeLength(w, v)) :
                   w \in S \ {v}})

\* The eccentricity of node u inside its cluster a.
Eccentricity(a, u) ==
    LET S == Members(a)
        D == {WalkLength(S, u, v, Cardinality(S)) : v \in S}
    IN  CHOOSE e \in D : \A f \in D : f <= e

\* Node i is a node of least eccentricity of cluster a.
IsCenter(a, i) ==
    /\ cm[i] = a
    /\ \A v \in Members(a) : Eccentricity(a, i) <= Eccentricity(a, v)

\* What lloyd_cluster_exact is to leave on return.
LloydExactPost ==
    /\ \A i \in 0..(num_rows - 1) : cm[i] \in 0..(num_clusters - 1)
    /\ \A a \in 0..(num_clusters - 1) : cm[c[a]] = a /\ IsCenter(a, c[a])

\* The nodes joined to the node set S by a path of stored edges all of
\* whose nodes carry the label a.
RECURSIVE ReachInside(_, _)
ReachInside(a, S) ==
    LET T == S \cup {j \in UNION {Adj(i) : i \in S} : cm[j] = a}
    IN  IF T = S THEN S ELSE ReachInside(a, T)

\* Every labelled node is joined to the seed of its cluster inside the
\* cluster.
ClustersConnected ==
    \A i \in 0..(num_rows - 1) :
        cm[i] > -1 => i \in ReachInside(cm[i], {c[cm[i]]})

\* The incidence arrays that list the nodes of every cluster, cluster 0
\* first, the nodes of a cluster in the order of the array ICi_.
ValidICi(n, cm_) ==
    {q \in [0..(n - 1) -> 0..(n - 1)] :
        /\ \A p1, p2 \in 0..(n - 1) : p1 # p2 => q[p1] # q[p2]
        /\ \A p1, p2 \in 0..(n - 1) : p1 < p2 => cm_[q[p1]] <= cm_[q[p2]]}
ValidICp(n, k, cm_) ==
    [a \in 0..k |-> Cardinality({i \in 0..(n - 1) : cm_[i] < a})]
ValidL(n, k, cm_, ICi_) ==
    [i \in 0..(n - 1) |->
        (CHOOSE p1 \in 0..(n - 1) : ICi_[p1] = i) - ValidICp(n, k, cm_)[cm_[i]]]

restCenter == <<lloydVars, misKVars, misVars, K, z, bfsVars, ccVars, bfbVars>>

\* A call of cluster_center(a, ...) with valid incidence arrays; a is held
\* in next_a.
InitCenter ==
    /\ pc = "center"
    /\ NDEBUG \in BOOLEAN
    /\ \E n \in 1..MaxN :
          \E G \in {g \in SymGraphs(n) : g.ord = "asc"} :
             \E W \in [G.E -> 0..MaxW] : InitGraph(G, W)
    /\ IdleMis /\ IdleBfs /\ IdleCc /\ IdleBfb /\ IdleMisK
    /\ K = 0 /\ z = <<>> /\ ret = -1
    /\ old_distances = <<>> /\ c_in = <<>>
    /\ num_clusters \in 1..num_rows
    /\ cm \in [0..(num_rows - 1) -> 0..(num_clusters - 1)]
    /\ ICi \in ValidICi(num_rows, cm)
    /\ ICp = ValidICp(num_rows, num_clusters, cm)
    /\ L = ValidL(num_rows, num_clusters, cm, ICi)
    /\ next_a \in 0..(num_clusters - 1)

CenterCall ==
    /\ pc = "center"
    /\ LET r == cluster_center(next_a, NDEBUG)
       IN  /\ ret' = r.i
           /\ pc' = IncNext(r.st, "center_done")
    /\ UNCHANGED <<NDEBUG, graphVars, incVars, restCenter>>

NextCenter == CenterCall

SpecCenter == InitCenter /\ [][NextCenter]_vars

\* The incidence arrays are inverse to each other.
IncidenceValid ==
    \A i \in 0..(num_rows - 1) : ICi[ICp[cm[i]] + L[i]] = i

\* Cluster a has a node and any two of its nodes are joined inside it.
ClusterConnected(a) ==
    /\ Members(a) # {}
    /\ \A i \in Members(a) : Members(a) \subseteq ReachInside(a, {i})

\* The local indices of cluster a whose node has least eccentricity.
CenterIndices(a) ==
    {m \in 0..(ICp[a + 1] - ICp[a] - 1) : IsCenter(a, ICi[ICp[a] + m])}

CenterTerminal ==
    {"center_done", "assert_failed", "exception_thrown", "undefined_behaviour"}

\* C14: with valid incidence arrays, non-negative weights and cluster a
\* connected inside, cluster_center returns, no assertion failing, the
\* node of the smallest local index among those of least eccentricity
\* inside the cluster; a cluster of one node returns that node.
C14_ClusterCenter ==
    (pc \in CenterTerminal /\ IncidenceValid /\ ClusterConnected(next_a)) =>
        /\ pc = "center_done"
        /\ \E m \in CenterIndices(next_a) :
              /\ ret = ICi[ICp[next_a] + m]
              /\ \A m2 \in CenterIndices(next_a) : m <= m2
        /\ Cardinality(Members(next_a)) = 1 => Members(next_a) = {ret}

\* Several nodes of a cluster of three or more tie for the least
\* eccentricity, and the node returned is not the one of smallest global
\* index among them; some edge has length 0.
C14_Witness ==
    /\ pc = "center_done" /\ IncidenceValid /\ ClusterConnected(next_a)
    /\ Cardinality(Members(next_a)) >= 3
    /\ Cardinality(CenterIndices(next_a)) >= 2
    /\ \E m \in CenterIndices(next_a) : ICi[ICp[next_a] + m] < ret
    /\ \E jj \in DOMAIN Ax : Ax[jj] = 0

\* A cluster of one node among several clusters.
C14_WitnessSingleton ==
    /\ pc = "center_done" /\ IncidenceValid
    /\ Members(next_a) = {ret}
    /\ num_clusters >= 2 /\ next_a >= 1

----------------------------------------------------------------------------
(* bellman_ford_balanced and lloyd_cluster_exact                           *)

\* The initialisation of d and cm from the seeds c[0..k-1].
RECURSIVE lloyd_seed(_, _, _, _)
lloyd_seed(k, c_, a, acc) ==
    IF a >= k THEN acc
    ELSE lloyd_seed(k, c_, a + 1,
            [d |-> [acc.d EXCEPT ![c_[a]] = 0],
             cm |-> [acc.cm EXCEPT ![c_[a]] = a]])

\* The cluster sizes counted on entry to bellman_ford_balanced.
bfb_cluster_sizes(k, cm_) ==
    [a \in 0..(k - 1) |-> Cardinality({i \in DOMAIN cm_ : cm_[i] = a})]

\* The test that makes node i switch to the cluster of its neighbour j.
bfb_switch_always_on_tie(new_d, i, j, acc) ==
    \/ new_d < acc.d[i]
    \/ /\ acc.cm[i] > -1
       /\ new_d = acc.d[i]
       /\ acc.cm[j] # acc.cm[i]
bfb_switch(new_d, i, j, acc) ==
    \/ new_d < acc.d[i]
    \/ /\ acc.cm[i] > -1
       /\ new_d = acc.d[i]
       /\ acc.cs[acc.cm[j]] < acc.cs[acc.cm[i]]
       /\ acc.pred_count[i] = 0

\* The body of the switch; st records a failed assertion, and ties logs
\* every switch made at equal distance: the node, its pred_count and the
\* sizes of the cluster it leaves and of the cluster it joins, as they are
\* when the switch is made.
bfb_do_switch(new_d, i, j, nd, acc) ==
    LET cs1 == IF acc.cm[i] > -1
               THEN [acc.cs EXCEPT ![acc.cm[i]] = @ - 1] ELSE acc.cs
        cs2 == [cs1 EXCEPT ![acc.cm[j]] = @ + 1]
        pc1 == IF acc.predecessor[i] > -1
               THEN [acc.pred_count EXCEPT ![acc.predecessor[i]] = @ - 1]
               ELSE acc.pred_count
        pc2 == [pc1 EXCEPT ![j] = @ + 1]
    IN  IF ~nd /\ acc.cm[i] > -1 /\ cs1[acc.cm[i]] < 0
        THEN [acc EXCEPT !.cs = cs1, !.st = "assert"]
        ELSE IF ~nd /\ acc.predecessor[i] > -1 /\ pc1[acc.predecessor[i]] < 0
        THEN [acc EXCEPT !.cs = cs2, !.pred_count = pc1, !.st = "assert"]
        ELSE [d |-> [acc.d EXCEPT ![i] = new_d],
              cm |-> [acc.cm EXCEPT ![i] = acc.cm[j]],
              cs |-> cs2,
              predecessor |-> [acc.predecessor EXCEPT ![i] = j],
              pred_count |-> pc2,
              change |-> TRUE,
              ties |-> IF new_d < acc.d[i] THEN acc.ties
                       ELSE acc.ties \cup
                            {[node |-> i, pred_count |-> acc.pred_count[i],
                              from |-> acc.cs[acc.cm[i]],
                              to |-> acc.cs[acc.cm[j]]]},
              st |-> acc.st]

\* The loop over the neighbours of node i.
RECURSIVE bfb_row(_, _, _, _)
bfb_row(i, jj, nd, acc) ==
    IF acc.st # "ok" \/ jj >= Ap[i + 1] THEN acc
    ELSE LET j == Aj[jj]
             new_d == fadd(Ax[jj], acc.d[j])
         IN  bfb_row(i, jj + 1, nd,
                IF bfb_switch(new_d, i, j, acc)
                THEN bfb_do_switch(new_d, i, j, nd, acc) ELSE acc)

\* One sweep over all nodes.
RECURSIVE bfb_sweep(_, _, _)
bfb_sweep(i, nd, acc) ==
    IF acc.st # "ok" \/ i >= num_rows THEN acc
    ELSE bfb_sweep(i + 1, nd, bfb_row(i, Ap[i], nd, acc))

\* The bound of the safety check on the number of sweeps.
bfb_iteration_cap(n) == n * n * n

\* The sequences of k distinct seeds among n nodes.
Seeds(n, k) ==
    {s \in [0..(k - 1) -> 0..(n - 1)] :
        \A a, b \in 0..(k - 1) : a # b => s[a] # s[b]}

restBfb == <<old_distances, c_in, misKVars, ICp, ICi, L, misVars, colVars, bfsVars, ccVars>>

\* The symmetric graphs on n vertices without stored diagonal, rows
\* ascending; they are given unit weights.
UnitGraphs(n) == {g \in SymGraphs(n) : g.ord = "asc" /\ ~g.loops}

InitLloydExact ==
    /\ pc = "lloyd_exact"
    /\ NDEBUG \in BOOLEAN
    /\ \/ \E n \in 1..MaxN : \E G \in SymGraphs(n) :
             \E W \in [G.E -> 1..MaxW] : InitGraph(G, W)
       \/ \E G \in UnitGraphs(MaxN + 1) : InitGraph(G, UnitW(G))
    /\ IdleMis /\ IdleCol /\ IdleBfs /\ IdleCc
    /\ IdleLloyd /\ IdleMisK
    /\ ICp = <<>> /\ ICi = <<>> /\ L = <<>>
    /\ num_clusters \in 1..num_rows
    /\ c \in Seeds(num_rows, num_clusters)
    /\ d = Fill(num_rows, 0)
    /\ cm = Fill(num_rows, 0)
    /\ predecessor = <<>> /\ pred_count = <<>> /\ cs = <<>>
    /\ iteration = 0 /\ change = FALSE /\ tie_switches = {}

\* lloyd_cluster_exact up to the call of bellman_ford_balanced.
LloydExactInit ==
    /\ pc = "lloyd_exact"
    /\ LET r == lloyd_seed(num_clusters, c, 0,
                           [d |-> Fill(num_rows, Inf), cm |-> Fill(num_rows, -1)])
       IN  d' = r.d /\ cm' = r.cm
    /\ pc' = "bfb_enter"
    /\ UNCHANGED <<NDEBUG, graphVars, restBfb, num_clusters, c, predecessor,
                   pred_count, cs, iteration, change, tie_switches, next_a>>

\* bellman_ford_balanced up to its loop.
BfbEnter ==
    /\ pc = "bfb_enter"
    /\ predecessor' = Fill(num_rows, -1)
    /\ pred_count' = Fill(num_rows, 0)
    /\ cs' = bfb_cluster_sizes(num_clusters, cm)
    /\ iteration' = 0
    /\ change' = TRUE
    /\ tie_switches' = {}
    /\ pc' = "bfb_loop"
    /\ UNCHANGED <<NDEBUG, graphVars, restBfb, num_clusters, c, d, cm, next_a>>

\* One pass of the do-while loop, with the safety check that ends it.
BfbSweep ==
    /\ pc = "bfb_loop"
    /\ change
    /\ LET r == bfb_sweep(0, NDEBUG,
                   [d |-> d, cm |-> cm, cs |-> cs, predecessor |-> predecessor,
                    pred_count |-> pred_count, change |-> FALSE,
                    ties |-> tie_switches, st |-> "ok"])
           it == IF NDEBUG \/ r.st # "ok" THEN iteration ELSE iteration + 1
       IN  /\ d' = r.d /\ cm' = r.cm /\ cs' = r.cs
           /\ predecessor' = r.predecessor /\ pred_count' = r.pred_count
           /\ change' = r.change
           /\ tie_switches' = r.ties
           /\ iteration' = it
           /\ pc' = IF r.st # "ok" THEN "assert_failed"
                    ELSE IF ~NDEBUG /\ ~(it < bfb_iteration_cap(num_rows))
                    THEN "assert_failed"
                    ELSE "bfb_loop"
    /\ UNCHANGED <<NDEBUG, graphVars, restBfb, num_clusters, c, next_a>>

BfbReturn ==
    /\ pc = "bfb_loop"
    /\ ~change
    /\ pc' = "bfb_done"
    /\ UNCHANGED <<NDEBUG, graphVars, restBfb, num_clusters, cm, bfbVars, next_a>>

\* lloyd_cluster_exact from the return of bellman_ford_balanced to the call
\* of cluster_node_incidence: the three local arrays of num_nodes entries.
LloydExactIncidence ==
    /\ pc = "bfb_done"
    /\ ICp' = Fill(num_rows, Undef)
    /\ ICi' = Fill(num_rows, Undef)
    /\ L' = Fill(num_rows, Undef)
    /\ pc' = "inc_sort"
    /\ UNCHANGED <<NDEBUG, graphVars, old_distances, c_in, misKVars, misVars,
                   colVars, bfsVars, ccVars, num_clusters, cm, bfbVars, next_a>>

\* The loop over the clusters is entered.
LloydExactCenters ==
    /\ pc = "inc_done"
    /\ next_a' = 0
    /\ pc' = "lloyd_centers"
    /\ UNCHANGED <<NDEBUG, graphVars, restBfb, num_clusters, cm, bfbVars>>

\* One pass of the loop over the clusters: the call of cluster_center and
\* the assertion that the new centre is in the cluster.
LloydExactCenter ==
    /\ pc = "lloyd_centers"
    /\ next_a < num_clusters
    /\ LET r == cluster_center(next_a, NDEBUG)
       IN  IF r.st # "ok"
           THEN /\ pc' = IncNext(r.st, pc)
                /\ UNCHANGED <<c, next_a>>
           ELSE /\ c' = [c EXCEPT ![next_a] = r.i]
                /\ IF ~NDEBUG /\ cm[r.i] # next_a
                   THEN pc' = "assert_failed" /\ next_a' = next_a
                   ELSE pc' = pc /\ next_a' = next_a + 1
    /\ UNCHANGED <<NDEBUG, graphVars, restBfb, num_clusters, cm, d,
                   predecessor, pred_count, cs, iteration, change,
                   tie_switches>>

LloydExactReturn ==
    /\ pc = "lloyd_centers"
    /\ ~(next_a < num_clusters)
    /\ pc' = "lloyd_exact_done"
    /\ UNCHANGED <<NDEBUG, graphVars, restBfb, num_clusters, cm, bfbVars, next_a>>

NextLloydExact ==
    \/ LloydExactInit
    \/ BfbEnter
    \/ BfbSweep
    \/ BfbReturn
    \/ LloydExactIncidence
    \/ IncSort
    \/ IncBuildICp
    \/ IncBuildL
    \/ IncCheckG2L
    \/ IncCheckL2G
    \/ LloydExactCenters
    \/ LloydExactCenter
    \/ LloydExactReturn

SpecLloydExact == InitLloydExact /\ [][NextLloydExact]_vars

LloydExactTerminal ==
    {"lloyd_exact_done", "assert_failed", "exception_thrown",
     "undefined_behaviour"}

\* C12: lloyd_cluster_exact on a connected symmetric graph with positive
\* weights and distinct seeds ends by returning, no assertion failing and
\* no access out of range, with every cm[i] in [0, k), cm[c[a]] = a and
\* c[a] a node of least eccentricity inside cluster a.
C12_LloydExactCompletes ==
    (Connected /\ Symmetric /\ pc \in LloydExactTerminal) =>
        /\ pc = "lloyd_exact_done"
        /\ LloydExactPost

\* C16: when bellman_ford_balanced returns on a symmetric graph, every
\* labelled node is joined to the seed of its cluster by a path of nodes
\* of that cluster, and every switch made at equal distance was made by a
\* node with pred_count 0 towards a strictly smaller cluster.
C16_BalancedKeepsConnectivity ==
    /\ (pc = "bfb_done" /\ Symmetric) => ClustersConnected
    /\ \A t \in tie_switches : t.pred_count = 0 /\ t.to < t.from

C16_Witness ==
    /\ pc = "bfb_done" /\ Symmetric /\ Connected
    /\ tie_switches # {}
    /\ num_clusters >= 2
    /\ num_rows > num_clusters

\* C18: in lloyd_cluster_exact every index at which cluster_node_incidence
\* writes ICp and at which cluster_center reads ICp is inside the array.
C18_ICpWithinLength ==
    /\ pc = "inc_ICp" =>
          incidence_ICp(num_rows, num_clusters, cm, ICi,
                        Cardinality(DOMAIN ICp), NDEBUG).st # "ub"
    /\ (pc = "lloyd_centers" /\ next_a < num_clusters) =>
          (next_a + 1) \in DOMAIN ICp

\* C3: on a connected symmetric graph with positive weights and distinct
\* seeds, bellman_ford_balanced returns, its safety check on the number of
\* sweeps never failing.
C3_BalancedTerminates ==
    (Connected /\ Symmetric /\ pc \in {"bfb_loop", "bfb_done", "assert_failed"}) =>
        /\ pc # "assert_failed"
        /\ ~NDEBUG => iteration < bfb_iteration_cap(num_rows)

----------------------------------------------------------------------------
(* bellman_ford and lloyd_cluster                                          *)

\* The loop over the neighbours of node i: the distance xi and the cluster
\* nci it ends with.
RECURSIVE bellman_ford_row(_, _, _, _, _, _)
bellman_ford_row(d_, cm_, i, jj, xi, nci) ==
    IF jj >= Ap[i + 1] THEN [xi |-> xi, nci |-> nci]
    ELSE LET j == Aj[jj]
             dd == fadd(Ax[jj], d_[j])
         IN  IF dd < xi
             THEN bellman_ford_row(d_, cm_, i, jj + 1, dd, cm_[j])
             ELSE bellman_ford_row(d_, cm_, i, jj + 1, xi, nci)

RECURSIVE bellman_ford_loop(_, _)
bellman_ford_loop(i, acc) ==
    IF i >= num_rows THEN acc
    ELSE LET r == bellman_ford_row(acc.d, acc.cm, i, Ap[i], acc.d[i], acc.cm[i])
         IN  bellman_ford_loop(i + 1,
                [d |-> [acc.d EXCEPT ![i] = r.xi],
                 cm |-> [acc.cm EXCEPT ![i] = r.nci]])

\* One pass of bellman_ford over d and cm, in place.
bellman_ford(d_, cm_) == bellman_ford_loop(0, [d |-> d_, cm |-> cm_])

\* Node i has a stored neighbour in another cluster.
lloyd_on_boundary(cm_, i) ==
    \E jj \in Ap[i]..(Ap[i + 1] - 1) : cm_[i] # cm_[Aj[jj]]

RECURSIVE lloyd_boundaries(_, _, _)
lloyd_boundaries(cm_, i, d_) ==
    IF i >= num_rows THEN d_
    ELSE lloyd_boundaries(cm_, i + 1,
            IF lloyd_on_boundary(cm_, i) THEN [d_ EXCEPT ![i] = 0] ELSE d_)

\* The test that moves the seed of cluster a to node i.
lloyd_seed_moves_nearer(d_, c_, a, i) == d_[c_[a]] > d_[i]
lloyd_seed_moves(d_, c_, a, i) == d_[c_[a]] < d_[i]

\* The loop that computes the new seeds; st records a failed assertion or
\* an index outside c.
RECURSIVE lloyd_new_seeds(_, _, _)
lloyd_new_seeds(i, nd, acc) ==
    IF acc.st # "ok" \/ i >= num_rows THEN acc
    ELSE LET a == cm[i]
         IN  IF a = -1 THEN lloyd_new_seeds(i + 1, nd, acc)
             ELSE IF ~(a >= 0 /\ a < num_clusters)
             THEN [acc EXCEPT !.st = IF nd THEN "ub" ELSE "assert"]
             ELSE lloyd_new_seeds(i + 1, nd,
                     IF lloyd_seed_moves(d, acc.c, a, i)
                     THEN [acc EXCEPT !.c[a] = i] ELSE acc)

\* The seed arrays of the model: k entries, each a node or one of the two
\* nearest values outside 0..n-1; entries may repeat.
LloydSeeds(n, k) == [0..(k - 1) -> -1..n]

restLloyd == <<next_a, misKVars, ICp, ICi, L, misVars, colVars, bfsVars,
               ccVars, predecessor, pred_count, cs, iteration, change,
               tie_switches>>

InitLloyd ==
    /\ pc = "lloyd"
    /\ NDEBUG \in BOOLEAN
    /\ \E n \in 1..MaxN : \E G \in SymGraphs(n) :
          \E W \in [G.E -> 0..MaxW] : InitGraph(G, W)
    /\ IdleMis /\ IdleCol /\ IdleBfs /\ IdleCc /\ IdleMisK
    /\ ICp = <<>> /\ ICi = <<>> /\ L = <<>>
    /\ num_clusters \in 1..num_rows
    /\ c \in LloydSeeds(num_rows, num_clusters)
    /\ c_in = c
    /\ d = Fill(num_rows, 0)
    /\ cm = Fill(num_rows, 0)
    /\ old_distances = <<>> /\ next_a = 0
    /\ predecessor = <<>> /\ pred_count = <<>> /\ cs = <<>>
    /\ iteration = 0 /\ change = FALSE /\ tie_switches = {}

\* The first position of c that holds no node, or k when every seed is a
\* node: the seed loop runs up to there.
lloyd_first_bad_seed(k, c_) ==
    Least({a \in 0..(k - 1) : ~(c_[a] >= 0 /\ c_[a] < num_rows)} \cup {k})

\* lloyd_cluster up to the allocation of old_distances.  A seed that is no
\* node stops the call at the assertion (or, without it, at the write
\* outside d), after d and cm were reset and the seeds before it written.
LloydInit ==
    /\ pc = "lloyd"
    /\ IF lloyd_first_bad_seed(num_clusters, c) < num_clusters
       THEN /\ pc' = IF NDEBUG THEN "undefined_behaviour" ELSE "assert_failed"
            /\ LET r == lloyd_seed(lloyd_first_bad_seed(num_clusters, c), c, 0,
                           [d |-> Fill(num_rows, Inf), cm |-> Fill(num_rows, -1)])
               IN  d' = r.d /\ cm' = r.cm
            /\ UNCHANGED old_distances
       ELSE /\ LET r == lloyd_seed(num_clusters, c, 0,
                           [d |-> Fill(num_rows, Inf), cm |-> Fill(num_rows, -1)])
               IN  d' = r.d /\ cm' = r.cm
            /\ old_distances' = Fill(num_rows, 0)
            /\ pc' = "lloyd_outward"
    /\ UNCHANGED <<NDEBUG, graphVars, num_clusters, c, c_in, restLloyd>>

\* One turn of the loop that propagates distances outward: copy d, run
\* bellman_ford, compare.
LloydOutward ==
    /\ pc = "lloyd_outward"
    /\ LET r == bellman_ford(d, cm)
       IN  /\ old_distances' = d
           /\ d' = r.d /\ cm' = r.cm
           /\ pc' = IF r.d = d THEN "lloyd_boundaries" ELSE "lloyd_outward"
    /\ UNCHANGED <<NDEBUG, graphVars, num_clusters, c, c_in, restLloyd>>

\* The two loops that find the boundaries.
LloydBoundaries ==
    /\ pc = "lloyd_boundaries"
    /\ d' = lloyd_boundaries(cm, 0, Fill(num_rows, Inf))
    /\ pc' = "lloyd_inward"
    /\ UNCHANGED <<NDEBUG, graphVars, num_clusters, cm, c, c_in, old_distances,
                   restLloyd>>

\* One turn of the loop that propagates distances inward.
LloydInward ==
    /\ pc = "lloyd_inward"
    /\ LET r == bellman_ford(d, cm)
       IN  /\ old_distances' = d
           /\ d' = r.d /\ cm' = r.cm
           /\ pc' = IF r.d = d THEN "lloyd_seeds" ELSE "lloyd_inward"
    /\ UNCHANGED <<NDEBUG, graphVars, num_clusters, c, c_in, restLloyd>>

\* The loop that computes the new seeds, and the return.
LloydNewSeeds ==
    /\ pc = "lloyd_seeds"
    /\ LET r == lloyd_new_seeds(0, NDEBUG, [c |-> c, st |-> "ok"])
       IN  /\ c' = r.c
           /\ pc' = IncNext(r.st, "lloyd_done")
    /\ UNCHANGED <<NDEBUG, graphVars, num_clusters, cm, d, c_in, old_distances,
                   restLloyd>>

NextLloyd ==
    \/ LloydInit
    \/ LloydOutward
    \/ LloydBoundaries
    \/ LloydInward
    \/ LloydNewSeeds

SpecLloyd == InitLloyd /\ [][NextLloyd]_vars

LloydTerminal == {"lloyd_done", "assert_failed", "undefined_behaviour"}

\* The seeds handed to lloyd_cluster are nodes, no two the same.
SeedsDistinctInRange ==
    /\ \A a \in 0..(num_clusters - 1) : c_in[a] \in 0..(num_rows - 1)
    /\ \A a, b \in 0..(num_clusters - 1) : a # b => c_in[a] # c_in[b]

\* C15: after lloyd_cluster on a connected symmetric graph with
\* non-negative weights and distinct seeds in range, every node has a
\* cluster in 0..k-1, the new seed of every cluster is a node of that
\* cluster, and no node of the cluster has a larger boundary distance.
C15_LloydSeeds ==
    (pc \in LloydTerminal /\ Connected /\ Symmetric /\ SeedsDistinctInRange) =>
        /\ pc = "lloyd_done"
        /\ \A i \in 0..(num_rows - 1) : cm[i] \in 0..(num_clusters - 1)
        /\ \A a \in 0..(num_clusters - 1) :
              /\ cm[c[a]] = a
              /\ \A i \in 0..(num_rows - 1) : cm[i] = a => d[c[a]] >= d[i]

\* A seed has moved to a node farther from the boundary, in a graph with
\* an edge of length 0 and a cluster of a single node.
C15_Witness ==
    /\ pc = "lloyd_done" /\ Connected /\ Symmetric /\ SeedsDistinctInRange
    /\ num_clusters >= 2
    /\ \E a \in 0..(num_clusters - 1) : c[a] # c_in[a] /\ d[c[a]] > d[c_in[a]]
    /\ \E jj \in DOMAIN Ax : Ax[jj] = 0

====
